---- MODULE Spec2Model ----
(***************************************************************************)
(* A model of the SNMP context of gosnmp (src/snmp.go, src/unnamed/part_001):*)
(* the request tracker with its timers and the outbound flow controller,   *)
(* the stats tracker and its ring of fifteen minute bins, the supervisor   *)
(* (monitor) with the receive and transmit tasks, and the agent's lookup   *)
(* of OID handlers.  src/snmp.go holds two variants of the context: the    *)
(* first (lines 1-506) restarts the I/O tasks from the monitor, the second *)
(* (lines 508-1091) starts them from initContext.  The variable `variant`  *)
(* selects the one a behaviour runs.                                       *)
(***************************************************************************)
EXTENDS Integers, Sequences, FiniteSets, TLC

\* ------------------------------------------------------------------ bounds
\* maxTargets, the capacity of requestsFromClients and of the outbound queue.
MaxTargets == 2
\* Requests the client submits in a behaviour of SpecTrack.
MaxReq == 2
\* The largest number of retries a request is configured with.
MaxRetries == 2
\* Responses the network delivers in a behaviour.
MaxResponses == 1
\* Capacity of statIncrementNotifications (100 in the source, scaled down).
StatBufCap == 2
\* Generations of the receive/transmit pair (the first start and the restarts).
MaxGen == 2
\* Datagrams the socket delivers to a listener that is left alone.
MaxDatagrams == 2
\* Datagrams the socket delivers while the lifecycle is exercised.
LifeDatagrams == 1
\* Concurrent callers of Shutdown.
NumCallers == 2
\* The restart delay of monitor, 30 seconds in the source, and the seconds a
\* behaviour's clock runs through.
RestartSeconds == 2
MaxClock == 3
\* Seconds from the zero time.Time to the making of the context, cut short.
ZeroTimeAge == 1000
\* Seconds of a fifteen minute bin (900 in the source, scaled down).
RolloverSeconds == 3
\* Increments the tasks issue while the ring is exercised.
MaxIncrements == 2
\* Calls of GetStat / GetStatsBin a behaviour makes.
MaxQueries == 2
\* The largest integer the codec is run on.
BerBig == 70000
\* The longest OID, the largest arc of an OID, and the handlers registered.
MaxOidLen == 3
MaxArc == 2
MaxHandlers == 2
\* Varbinds of a community request, and requests an agent is handed.
MaxVarbinds == 2
MaxAgentRequests == 1
\* nextRequestId is a uint32 and wraps at 2^32 (scaled down; SpecIds is the
\* specification whose behaviours assign more ids than this).
IdModulus == 8

\* ------------------------------------------------------- program constants
\* Capacity of responsesFromAgents.
RespChanCap == 100
\* Slots of fifteenMinuteBins.
RingSlots == 97
\* NewAgent's port.
DefaultAgentPort == 161

VARIABLES
    variant,                      \* 1: lines 1-506, 2: lines 508-1091
    \* ---- client side of sendRequest
    submitLimit,                  \* submissions the client will make
    cPc,                          \* "idle" | "stat" | "send"
    communityRequestPool,         \* free request objects of the pool
    freed,                        \* the requests returned to the pool
    requests,                     \* the request objects, in submission order
    \* ---- request tracker
    requestsFromClients,
    responsesFromAgents,
    outstandingRequests,          \* request id -> request
    nextRequestId,
    trackerPc,
    tReq,                         \* the request the tracker is handling
    nResponses,                   \* responses delivered so far
    \* ---- outbound flow controller (one task per generation of the I/O pair)
    outboundFlowControlQueue,
    txPc,
    txMsg,
    txExit,                       \* why each transmitter left its loop
    \* ---- stats tracker
    statIncrementNotifications,
    fifteenMinuteBins,
    nextRollover,
    statsPc,
    nTicks,                       \* fires of the stats ticker so far
    \* ---- GetStat / GetStatsBin
    statRequests,                 \* the request a caller is sending, or <<>>
    qPc,                          \* the caller: "idle" | "send" | "replied"
    qReply,                       \* what the caller received on responseChan
    qResults,                     \* what the calls so far returned
    \* ---- supervisor and shutdown
    monPc,
    shuttingDown,
    restartTimer,
    restartDue,                   \* the second the restart timer fires at
    restartAttempts,              \* the seconds at which a restart was attempted
    externalShutdownNotification, \* "open" | "closed" | "nil"
    internalShutdownNotification, \* TRUE once closed
    shutDownComplete,             \* TRUE once closed
    inboundDied,                  \* "nil" | "chan"
    outboundDied,                 \* "nil" | "chan"
    shutdownSync,                 \* the sync.Once: "new" | "running" | "done"
    callerPc,                     \* the callers of Shutdown
    closes,                       \* how often each channel was closed
    \* ---- UDP socket and receive side
    conn,                         \* generation of ctxt.conn, 0 for nil
    connOpen,
    rxPc,
    rxMsg,
    received,                     \* the datagrams read so far, by kind
    readLimit,                    \* datagrams the socket will deliver
    role,                         \* "manager" | "agent"
    routed,                       \* datagram kinds handed to the processor or tracker
    incomingRequestProcessor,     \* "nil" | "agent"
    \* ---- agent: handler lookup
    oidTree,                      \* the registered handler OIDs
    lookupOid,                    \* the OID of the varbind processed last
    lookupResult,                 \* what the agent did with that varbind
    processed,                    \* the community requests the agent processed
    \* ---- the clock and the port
    now,                          \* seconds since the context was made
    port,                         \* ctxt.port; 0 lets the system pick a port
    \* ---- BER codec of a varbind
    berIn,                        \* the varbind handed to encodeVarbind
    wire,                         \* its encoding, a sequence of bytes
    berOut                        \* <<>>, or <<what decodeVarbind returned>>

clientVars == <<submitLimit, cPc, requests, communityRequestPool, freed>>
trackVars == <<requestsFromClients, responsesFromAgents, outstandingRequests,
               nextRequestId, trackerPc, tReq, nResponses>>
txVars == <<outboundFlowControlQueue, txPc, txMsg, txExit>>
statVars == <<statIncrementNotifications, fifteenMinuteBins, nextRollover,
              statsPc, nTicks>>
monVars == <<monPc, shuttingDown, restartTimer, restartDue, restartAttempts,
             externalShutdownNotification,
             shutDownComplete, inboundDied, outboundDied>>
callVars == <<shutdownSync, callerPc, closes>>
rxVars == <<conn, connOpen, rxPc, rxMsg, received, readLimit, role, routed>>
oidVars == <<oidTree, lookupOid, lookupResult, processed>>
procVars == <<incomingRequestProcessor>>
queryVars == <<statRequests, qPc, qReply, qResults>>
berVars == <<berIn, wire, berOut>>
timeVars == <<now, port>>
vars == <<variant, clientVars, trackVars, txVars, statVars, monVars, callVars,
          rxVars, oidVars, procVars, timeVars, berVars, queryVars, internalShutdownNotification>>

\* ------------------------------------------------------------------- stats
StatTypes ==
    {"INBOUND_CONNECTION_DEATH", "INBOUND_CONNECTION_CLOSE",
     "OUTBOUND_CONNECTION_DEATH", "OUTBOUND_CONNECTION_CLOSE",
     "INBOUND_MESSAGES_RECEIVED", "INBOUND_MESSAGES_UNDECODABLE",
     "OUTBOUND_MESSAGES_SENT", "RESPONSES_RELEASED_TO_CLIENT",
     "RESPONSES_DROPPED_BY_REQUEST_TRACKER", "REQUESTS_SENT",
     "REQUESTS_FORWARDED_TO_FLOW_CONTROL", "UNKNOWN_REQUESTS_TIMED_OUT",
     "REQUESTS_TIMED_OUT", "REQUEST_RETRIES_EXHAUSTED",
     "GET_REQUESTS_RECEIVED", "GET_NEXT_REQUESTS_RECEIVED",
     "GET_BULK_REQUESTS_RECEIVED", "SET_REQUESTS_RECEIVED",
     "RESPONSES_RECEIVED", "V1_TRAPS_RECEIVED", "V2_TRAPS_RECEIVED",
     "COMMUNITY_REQUEST_RECEIVED_WITH_NO_REQUEST_PROCESSOR",
     "UNDECODABLE_MESSAGES_RECEIVED"}

\* A Go map from stat type to int: a missing key reads as 0.
EmptyStats == [k \in {} |-> 0]

StatOf(stats, k) == IF k \in DOMAIN stats THEN stats[k] ELSE 0

StatsPlusOne(stats, k) ==
    [j \in DOMAIN stats \cup {k} |-> StatOf(stats, j) + (IF j = k THEN 1 ELSE 0)]

\* &StatsBin{}: a bin with an empty Stats map.
newStatsBin == [Stats |-> EmptyStats, NumSeconds |-> 0]

\* The ring is a slice of RingSlots pointers.  The model keeps the slots that
\* hold a bin: fifteenMinuteBins[i + 1] is the source's fifteenMinuteBins[i],
\* and a slot outside the DOMAIN is a nil pointer.
InitBins == [i \in {1} |-> newStatsBin]

\* ctxt.incrementStat: a send on the buffered channel; it blocks while full.
CanIncrementStat == Len(statIncrementNotifications) < StatBufCap

incrementStat(k) == Append(statIncrementNotifications, k)

\* trackStats, case statType := <-ctxt.statIncrementNotifications
TrackStatsIncrement ==
    /\ statsPc = "run"
    /\ statIncrementNotifications # <<>>
    /\ LET k == Head(statIncrementNotifications) IN
       fifteenMinuteBins' =
           [fifteenMinuteBins EXCEPT ![1].Stats = StatsPlusOne(@, k)]
    /\ statIncrementNotifications' = Tail(statIncrementNotifications)
    /\ UNCHANGED <<variant, clientVars, trackVars, txVars, nextRollover, statsPc,
                   nTicks, monVars, callVars, rxVars, oidVars, procVars, timeVars, berVars, queryVars,
                   internalShutdownNotification>>

\* trackStats, case <-ctxt.internalShutdownNotification
TrackStatsShutdown ==
    /\ statsPc = "run"
    /\ internalShutdownNotification
    /\ statsPc' = "done"
    /\ UNCHANGED <<variant, clientVars, trackVars, txVars,
                   statIncrementNotifications, fifteenMinuteBins, nextRollover,
                   nTicks, monVars, callVars, rxVars, oidVars, procVars, timeVars, berVars, queryVars,
                   internalShutdownNotification>>

\* Ticker fires a behaviour of the ring's specification runs through.
MaxTicks == 2 * RolloverSeconds + 1

notStats == <<variant, clientVars, trackVars, txVars, monVars, callVars, rxVars,
              oidVars, procVars, timeVars, berVars, queryVars, internalShutdownNotification>>

\* The ring after a rollover: slot idx takes the bin of slot idx - 1, for
\* idx from the last slot down to 1, and slot 0 a new bin.
ShiftBins(bins) ==
    [i \in {1} \cup {j + 1 : j \in DOMAIN bins \cap 1..(RingSlots - 1)} |->
        IF i = 1 THEN newStatsBin ELSE bins[i - 1]]

\* trackStats, case <-ticker.C.  The first variant's loop starts at
\* idx = len(fifteenMinuteBins) and its first assignment indexes the slice
\* out of range: the task panics, and the program with it.
StatsTick ==
    /\ statsPc = "run"
    /\ nTicks < MaxTicks
    /\ nTicks' = nTicks + 1
    /\ LET ticked == [fifteenMinuteBins EXCEPT ![1].NumSeconds = @ + 1] IN
       IF ticked[1].NumSeconds = nextRollover
       THEN IF variant = 1
            THEN /\ fifteenMinuteBins' = ticked
                 /\ statsPc' = "panicked"
                 /\ UNCHANGED nextRollover
            ELSE /\ fifteenMinuteBins' = ShiftBins(ticked)
                 /\ nextRollover' = RolloverSeconds
                 /\ UNCHANGED statsPc
       ELSE /\ fifteenMinuteBins' = ticked
            /\ UNCHANGED <<nextRollover, statsPc>>
    /\ UNCHANGED statIncrementNotifications
    /\ UNCHANGED notStats

\* The sum of a map's values.
RECURSIVE SumOver(_, _)
SumOver(f, S) ==
    IF S = {} THEN 0
    ELSE LET x == CHOOSE y \in S : TRUE IN f[x] + SumOver(f, S \ {x})

\* The increments the ring holds, and those still buffered.
IncrementsHeld ==
    SumOver([i \in DOMAIN fifteenMinuteBins |->
                SumOver(fifteenMinuteBins[i].Stats,
                        DOMAIN fifteenMinuteBins[i].Stats)],
            DOMAIN fifteenMinuteBins)
        + Len(statIncrementNotifications)

\* Some task of the running program calls ctxt.incrementStat(k).
IncrementStatCall(k) ==
    /\ statsPc # "panicked"
    /\ CanIncrementStat
    /\ IncrementsHeld < MaxIncrements
    /\ statIncrementNotifications' = incrementStat(k)
    /\ UNCHANGED <<fifteenMinuteBins, nextRollover, statsPc, nTicks>>
    /\ UNCHANGED notStats

\* ------------------------------------------------ GetStat and GetStatsBin
\* The bins a caller asks for (bin is a uint8): the live bin, the first and
\* the last historical bin, the first index past the ring, the largest uint8.
QueryBins == {0, 1, RingSlots - 1, RingSlots, 255}

notQuery == <<variant, clientVars, trackVars, txVars, monVars, callVars, rxVars,
              oidVars, procVars, timeVars, berVars, internalShutdownNotification,
              statIncrementNotifications, nextRollover, nTicks>>

\* GetStat (all = FALSE) and GetStatsBin (all = TRUE) up to the send on the
\* unbuffered statRequests: the caller waits there for the stats tracker.
GetStatCall(all, k, bin) ==
    /\ qPc = "idle"
    /\ statsPc # "panicked"
    /\ Len(qResults) < MaxQueries
    /\ statRequests' = [allStats |-> all, singleStat |-> k, bin |-> bin]
    /\ qPc' = "send"
    /\ UNCHANGED <<qReply, qResults, fifteenMinuteBins, statsPc>>
    /\ UNCHANGED notQuery

\* trackStats, case req := <-ctxt.statRequests.  The caller is at its receive
\* on responseChan, so a send on it completes.  Past the ring nil is sent and
\* the code goes on to index the slice: index out of range.  A slot no
\* rollover has filled holds a nil pointer, and statsBin.Stats dereferences
\* it.  Either panic ends the task, and the program with it.
TrackStatsRequest ==
    /\ statsPc = "run"
    /\ qPc = "send"
    /\ LET req == statRequests
           slot == req.bin + 1
       IN  IF req.bin >= RingSlots
           THEN /\ qReply' = <<"nil">>
                /\ qPc' = "replied"
                /\ statsPc' = "panicked"
           ELSE IF slot \notin DOMAIN fifteenMinuteBins
           THEN /\ statsPc' = "panicked"
                /\ UNCHANGED <<qReply, qPc>>
           ELSE /\ qReply' = IF req.allStats
                             THEN <<"bin", fifteenMinuteBins[slot]>>
                             ELSE <<"int", StatOf(fifteenMinuteBins[slot].Stats,
                                                  req.singleStat)>>
                /\ qPc' = "replied"
                /\ UNCHANGED statsPc
    /\ UNCHANGED <<statRequests, qResults, fifteenMinuteBins>>
    /\ UNCHANGED notQuery

\* GetStat / GetStatsBin after resp := <-responseChan: nil is the "bin not
\* available" error, anything else the value.
GetStatReturn ==
    /\ qPc = "replied"
    /\ qResults' = Append(qResults,
                          IF qReply[1] = "nil"
                          THEN <<"not available", statRequests.bin>>
                          ELSE <<"value", statRequests.bin, qReply[2]>>)
    /\ qPc' = "idle"
    /\ qReply' = <<>>
    /\ statRequests' = <<>>
    /\ UNCHANGED <<fifteenMinuteBins, statsPc>>
    /\ UNCHANGED notQuery

\* ------------------------------------------------------- client, sendRequest
Retries == 1..MaxRetries

\* A request object as the client hands it to sendRequest.  pushes and
\* notified count what happened to it (history, not fields of the source).
newRequest(r) ==
    [retries |-> r, retriesRemaining |-> r, requestId |-> 0, timer |-> "stopped",
     response |-> FALSE, transportError |-> "none", notified |-> 0, pushes |-> 0]

notClient == <<variant, statsPc, fifteenMinuteBins, nextRollover, nTicks, txVars,
               monVars, callVars, rxVars, oidVars, procVars, timeVars, berVars, queryVars,
               internalShutdownNotification>>

\* The requests created so far.
Submitted == 1..Len(requests)

\* allocateCommunityRequest: take a request object from the pool, which
\* holds maxTargets of them; the caller waits while the pool is empty.  The
\* client then configures the request with r retries and calls sendRequest.
AllocateCommunityRequest(r) ==
    /\ cPc = "idle"
    /\ Len(requests) < submitLimit
    /\ communityRequestPool > 0
    /\ communityRequestPool' = communityRequestPool - 1
    /\ requests' = Append(requests, newRequest(r))
    /\ cPc' = "stat"
    /\ UNCHANGED <<submitLimit, freed, trackVars, statIncrementNotifications>>
    /\ UNCHANGED notClient

\* freeCommunityRequest: the client returns a request it was notified of.
FreeCommunityRequest(r) ==
    /\ r \in Submitted \ freed
    /\ requests[r].notified > 0
    /\ freed' = freed \cup {r}
    /\ communityRequestPool' = communityRequestPool + 1
    /\ UNCHANGED <<submitLimit, cPc, requests, trackVars,
                   statIncrementNotifications>>
    /\ UNCHANGED notClient

\* sendRequest, first statement: ctxt.incrementStat(StatType_REQUESTS_SENT)
SendRequestIncrement ==
    /\ cPc = "stat"
    /\ CanIncrementStat
    /\ statIncrementNotifications' = incrementStat("REQUESTS_SENT")
    /\ cPc' = "send"
    /\ UNCHANGED <<submitLimit, requests, communityRequestPool, freed, trackVars>>
    /\ UNCHANGED notClient

\* A requestsFromClients one slot smaller than the pool.
ReqChanCapShort == MaxTargets - 1

\* make(chan SnmpRequest, maxTargets)
ReqChanCap == MaxTargets

\* sendRequest, second statement: ctxt.requestsFromClients <- req
SendRequestEnqueue ==
    /\ cPc = "send"
    /\ Len(requestsFromClients) < ReqChanCap
    /\ requestsFromClients' = Append(requestsFromClients, Len(requests))
    /\ cPc' = "idle"
    /\ UNCHANGED <<submitLimit, requests, communityRequestPool, freed,
                   responsesFromAgents, outstandingRequests, nextRequestId,
                   trackerPc, tReq, nResponses, statIncrementNotifications>>
    /\ UNCHANGED notClient

\* ------------------------------------------------------------ request timers
\* isRetryRequired: each fire decrements retries_remaining; the retries are
\* exhausted when it is 0 after the decrement.
isRetryRequired(req) == req.retriesRemaining - 1 # 0

\* The request's one-shot timer fires: its callback, handleRequestTimeout,
\* now waits to send the request id on the unbuffered requestTimeouts.
TimerFire(r) ==
    /\ r \in 1..Len(requests)
    /\ requests[r].timer = "running"
    /\ requests' = [requests EXCEPT ![r].timer = "fired"]
    /\ UNCHANGED <<submitLimit, cPc, communityRequestPool, freed, trackVars,
                   statIncrementNotifications>>
    /\ UNCHANGED notClient

\* ------------------------------------------------------------ trackRequests
notTracker == <<variant, submitLimit, cPc, communityRequestPool, freed, statsPc, fifteenMinuteBins,
                nextRollover, nTicks, txPc, txMsg, txExit, monVars, callVars,
                rxVars, oidVars, procVars, timeVars, berVars, queryVars, internalShutdownNotification>>

\* delete(ctxt.outstandingRequests, id)
MapDelete(m, id) == [k \in DOMAIN m \ {id} |-> m[k]]

\* ctxt.outstandingRequests[id] = r
MapPut(m, id, r) == [k \in DOMAIN m \cup {id} |-> IF k = id THEN r ELSE m[k]]

\* case outboundReq := <-ctxt.requestsFromClients, up to startTimer
TrackNewRequest ==
    /\ trackerPc = "select"
    /\ requestsFromClients # <<>>
    /\ LET r == Head(requestsFromClients)
           id == (nextRequestId + 1) % IdModulus
       IN /\ nextRequestId' = id
          /\ requests' = [requests EXCEPT ![r].requestId = id,
                                          ![r].timer = "running"]
          /\ outstandingRequests' = MapPut(outstandingRequests, id, r)
          /\ tReq' = r
    /\ requestsFromClients' = Tail(requestsFromClients)
    /\ trackerPc' = "fwdStat"
    /\ UNCHANGED <<responsesFromAgents, nResponses, outboundFlowControlQueue,
                   statIncrementNotifications>>
    /\ UNCHANGED notTracker

\* ctxt.incrementStat(StatType_REQUESTS_FORWARDED_TO_FLOW_CONTROL), of the
\* new-request branch and of the retry branch
TrackForwardStat ==
    /\ trackerPc = "fwdStat"
    /\ CanIncrementStat
    /\ statIncrementNotifications' =
           incrementStat("REQUESTS_FORWARDED_TO_FLOW_CONTROL")
    /\ trackerPc' = "push"
    /\ UNCHANGED <<requests, requestsFromClients, responsesFromAgents,
                   outstandingRequests, nextRequestId, tReq, nResponses,
                   outboundFlowControlQueue>>
    /\ UNCHANGED notTracker

\* ctxt.outboundFlowControlQueue <- req: blocks while the queue is full
TrackPush ==
    /\ trackerPc = "push"
    /\ Len(outboundFlowControlQueue) < MaxTargets
    /\ outboundFlowControlQueue' = Append(outboundFlowControlQueue, tReq)
    /\ requests' = [requests EXCEPT ![tReq].pushes = @ + 1]
    /\ trackerPc' = "select"
    /\ tReq' = 0
    /\ UNCHANGED <<requestsFromClients, responsesFromAgents, outstandingRequests,
                   nextRequestId, nResponses, statIncrementNotifications>>
    /\ UNCHANGED notTracker

\* TrackResponse with the delete of the outstanding entry left out.
TrackResponseKeepsEntry ==
    /\ trackerPc = "select"
    /\ responsesFromAgents # <<>>
    /\ LET id == Head(responsesFromAgents) IN
       IF id \notin DOMAIN outstandingRequests
       THEN /\ trackerPc' = "dropStat"
            /\ UNCHANGED <<requests, tReq>>
       ELSE LET r == outstandingRequests[id] IN
            /\ requests' =
                   [requests EXCEPT
                       ![r].timer = IF @ = "running" THEN "stopped" ELSE @,
                       ![r].response = TRUE]
            /\ tReq' = r
            /\ trackerPc' = "relStat"
    /\ responsesFromAgents' = Tail(responsesFromAgents)
    /\ UNCHANGED <<requestsFromClients, outstandingRequests, nextRequestId,
                   nResponses, outboundFlowControlQueue,
                   statIncrementNotifications>>
    /\ UNCHANGED notTracker

\* case responseFromRemoteAgent := <-ctxt.responsesFromAgents, up to setResponse
TrackResponse ==
    /\ trackerPc = "select"
    /\ responsesFromAgents # <<>>
    /\ LET id == Head(responsesFromAgents) IN
       IF id \notin DOMAIN outstandingRequests
       THEN /\ trackerPc' = "dropStat"
            /\ UNCHANGED <<requests, outstandingRequests, tReq>>
       ELSE LET r == outstandingRequests[id] IN
            /\ outstandingRequests' =
                   MapDelete(outstandingRequests, requests[r].requestId)
            /\ requests' =
                   [requests EXCEPT
                       ![r].timer = IF @ = "running" THEN "stopped" ELSE @,
                       ![r].response = TRUE]
            /\ tReq' = r
            /\ trackerPc' = "relStat"
    /\ responsesFromAgents' = Tail(responsesFromAgents)
    /\ UNCHANGED <<requestsFromClients, nextRequestId, nResponses,
                   outboundFlowControlQueue, statIncrementNotifications>>
    /\ UNCHANGED notTracker

\* ctxt.incrementStat(StatType_RESPONSES_DROPPED_BY_REQUEST_TRACKER); continue
TrackDropStat ==
    /\ trackerPc = "dropStat"
    /\ CanIncrementStat
    /\ statIncrementNotifications' =
           incrementStat("RESPONSES_DROPPED_BY_REQUEST_TRACKER")
    /\ trackerPc' = "select"
    /\ UNCHANGED <<requests, requestsFromClients, responsesFromAgents,
                   outstandingRequests, nextRequestId, tReq, nResponses,
                   outboundFlowControlQueue>>
    /\ UNCHANGED notTracker

\* ctxt.incrementStat(StatType_RESPONSES_RELEASED_TO_CLIENT); notify()
TrackReleaseNotify ==
    /\ trackerPc = "relStat"
    /\ CanIncrementStat
    /\ statIncrementNotifications' = incrementStat("RESPONSES_RELEASED_TO_CLIENT")
    /\ requests' = [requests EXCEPT ![tReq].notified = @ + 1]
    /\ trackerPc' = "select"
    /\ tReq' = 0
    /\ UNCHANGED <<requestsFromClients, responsesFromAgents, outstandingRequests,
                   nextRequestId, nResponses, outboundFlowControlQueue>>
    /\ UNCHANGED notTracker

\* TrackTimeout with the startTimer of the retry branch left out.
TrackTimeoutNoRestart(r) ==
    /\ trackerPc = "select"
    /\ r \in 1..Len(requests)
    /\ requests[r].timer = "fired"
    /\ LET requestId == requests[r].requestId IN
       IF requestId \notin DOMAIN outstandingRequests
       THEN /\ requests' = [requests EXCEPT ![r].timer = "stopped"]
            /\ trackerPc' = "unkStat"
            /\ UNCHANGED <<outstandingRequests, tReq>>
       ELSE LET t == outstandingRequests[requestId] IN
            IF isRetryRequired(requests[t])
            THEN /\ requests' =
                        [requests EXCEPT ![r].timer = "stopped",
                                         ![t].retriesRemaining = @ - 1]
                 /\ tReq' = t
                 /\ trackerPc' = "toStat"
                 /\ UNCHANGED outstandingRequests
            ELSE /\ requests' =
                        [requests EXCEPT ![r].timer = "stopped",
                                         ![t].retriesRemaining = @ - 1,
                                         ![t].transportError = "Timeout"]
                 /\ outstandingRequests' =
                        MapDelete(outstandingRequests, requests[t].requestId)
                 /\ tReq' = t
                 /\ trackerPc' = "exhStat"
    /\ UNCHANGED <<requestsFromClients, responsesFromAgents, nextRequestId,
                   nResponses, outboundFlowControlQueue,
                   statIncrementNotifications>>
    /\ UNCHANGED notTracker

\* case requestId := <-ctxt.requestTimeouts, up to startTimer or
\* setTransportError: the receive completes the send of a fired timer
TrackTimeout(r) ==
    /\ trackerPc = "select"
    /\ r \in 1..Len(requests)
    /\ requests[r].timer = "fired"
    /\ LET requestId == requests[r].requestId IN
       IF requestId \notin DOMAIN outstandingRequests
       THEN /\ requests' = [requests EXCEPT ![r].timer = "stopped"]
            /\ trackerPc' = "unkStat"
            /\ UNCHANGED <<outstandingRequests, tReq>>
       ELSE LET t == outstandingRequests[requestId] IN
            IF isRetryRequired(requests[t])
            THEN /\ requests' =
                        [requests EXCEPT ![r].timer = "stopped",
                                         ![t].retriesRemaining = @ - 1,
                                         ![t].timer = "running"]
                 /\ tReq' = t
                 /\ trackerPc' = "toStat"
                 /\ UNCHANGED outstandingRequests
            ELSE /\ requests' =
                        [requests EXCEPT ![r].timer = "stopped",
                                         ![t].retriesRemaining = @ - 1,
                                         ![t].transportError = "Timeout"]
                 /\ outstandingRequests' =
                        MapDelete(outstandingRequests, requests[t].requestId)
                 /\ tReq' = t
                 /\ trackerPc' = "exhStat"
    /\ UNCHANGED <<requestsFromClients, responsesFromAgents, nextRequestId,
                   nResponses, outboundFlowControlQueue,
                   statIncrementNotifications>>
    /\ UNCHANGED notTracker

\* TrackUnknownStat counting the timeout under REQUESTS_TIMED_OUT.
TrackUnknownStatAsTimedOut ==
    /\ trackerPc = "unkStat"
    /\ CanIncrementStat
    /\ statIncrementNotifications' = incrementStat("REQUESTS_TIMED_OUT")
    /\ trackerPc' = "select"
    /\ UNCHANGED <<requests, requestsFromClients, responsesFromAgents,
                   outstandingRequests, nextRequestId, tReq, nResponses,
                   outboundFlowControlQueue>>
    /\ UNCHANGED notTracker

\* ctxt.incrementStat(StatType_UNKNOWN_REQUESTS_TIMED_OUT); continue
TrackUnknownStat ==
    /\ trackerPc = "unkStat"
    /\ CanIncrementStat
    /\ statIncrementNotifications' = incrementStat("UNKNOWN_REQUESTS_TIMED_OUT")
    /\ trackerPc' = "select"
    /\ UNCHANGED <<requests, requestsFromClients, responsesFromAgents,
                   outstandingRequests, nextRequestId, tReq, nResponses,
                   outboundFlowControlQueue>>
    /\ UNCHANGED notTracker

\* TrackTimedOutStat with the retry's REQUESTS_FORWARDED_TO_FLOW_CONTROL
\* increment left out: the tracker goes straight to the push.
TrackTimedOutStatNoForward ==
    /\ trackerPc = "toStat"
    /\ CanIncrementStat
    /\ statIncrementNotifications' = incrementStat("REQUESTS_TIMED_OUT")
    /\ trackerPc' = "push"
    /\ UNCHANGED <<requests, requestsFromClients, responsesFromAgents,
                   outstandingRequests, nextRequestId, tReq, nResponses,
                   outboundFlowControlQueue>>
    /\ UNCHANGED notTracker

\* ctxt.incrementStat(StatType_REQUESTS_TIMED_OUT) of the retry branch
TrackTimedOutStat ==
    /\ trackerPc = "toStat"
    /\ CanIncrementStat
    /\ statIncrementNotifications' = incrementStat("REQUESTS_TIMED_OUT")
    /\ trackerPc' = "fwdStat"
    /\ UNCHANGED <<requests, requestsFromClients, responsesFromAgents,
                   outstandingRequests, nextRequestId, tReq, nResponses,
                   outboundFlowControlQueue>>
    /\ UNCHANGED notTracker

\* ctxt.incrementStat(StatType_REQUEST_RETRIES_EXHAUSTED); notify()
TrackExhaustedNotify ==
    /\ trackerPc = "exhStat"
    /\ CanIncrementStat
    /\ statIncrementNotifications' = incrementStat("REQUEST_RETRIES_EXHAUSTED")
    /\ requests' = [requests EXCEPT ![tReq].notified = @ + 1]
    /\ trackerPc' = "select"
    /\ tReq' = 0
    /\ UNCHANGED <<requestsFromClients, responsesFromAgents, outstandingRequests,
                   nextRequestId, nResponses, outboundFlowControlQueue>>
    /\ UNCHANGED notTracker

\* case <-ctxt.internalShutdownNotification: return
TrackShutdown ==
    /\ trackerPc = "select"
    /\ internalShutdownNotification
    /\ trackerPc' = "done"
    /\ UNCHANGED <<requests, requestsFromClients, responsesFromAgents,
                   outstandingRequests, nextRequestId, tReq, nResponses,
                   outboundFlowControlQueue, statIncrementNotifications>>
    /\ UNCHANGED notTracker

\* ----------------------------------------------------- processOutboundQueue
Gens == 1..MaxGen

notTx == <<variant, clientVars, trackVars, statsPc, fifteenMinuteBins,
           nextRollover, nTicks, monVars, callVars, conn, rxMsg, received,
           readLimit, role, routed, oidVars, procVars, timeVars, berVars, queryVars,
           internalShutdownNotification>>

\* An encode failure taken as an error of the socket: the controller leaves
\* its loop as it does after a failed write.
TxEncodeErrorExits(g) ==
    /\ txPc[g] = "select"
    /\ outboundFlowControlQueue # <<>>
    /\ outboundFlowControlQueue' = Tail(outboundFlowControlQueue)
    /\ txPc' = [txPc EXCEPT ![g] = "statDeath"]
    /\ UNCHANGED <<txMsg, txExit, statIncrementNotifications, connOpen, rxPc>>
    /\ UNCHANGED notTx

\* case msg := <-ctxt.outboundFlowControlQueue, and msg.encode returns an
\* error: Debugf, continue.  The message is gone from the queue and the
\* controller is back at its select; no stat is incremented.
TxEncodeError(g) ==
    /\ txPc[g] = "select"
    /\ outboundFlowControlQueue # <<>>
    /\ outboundFlowControlQueue' = Tail(outboundFlowControlQueue)
    /\ UNCHANGED <<txPc, txMsg, txExit, statIncrementNotifications, connOpen,
                   rxPc>>
    /\ UNCHANGED notTx

\* case msg := <-ctxt.outboundFlowControlQueue (the message encodes)
TxTake(g) ==
    /\ txPc[g] = "select"
    /\ outboundFlowControlQueue # <<>>
    /\ txMsg' = Head(outboundFlowControlQueue)
    /\ outboundFlowControlQueue' = Tail(outboundFlowControlQueue)
    /\ txPc' = [txPc EXCEPT ![g] = "write"]
    /\ UNCHANGED <<txExit, statIncrementNotifications, connOpen, rxPc>>
    /\ UNCHANGED notTx

\* ctxt.conn.WriteToUDP returns no error and the full length
TxWriteOk(g) ==
    /\ txPc[g] = "write"
    /\ conn # 0 /\ connOpen[conn]
    /\ txPc' = [txPc EXCEPT ![g] = "statSent"]
    /\ UNCHANGED <<outboundFlowControlQueue, txMsg, txExit,
                   statIncrementNotifications, connOpen, rxPc>>
    /\ UNCHANGED notTx

\* ctxt.conn.WriteToUDP fails on an open socket: any other error
TxWriteError(g) ==
    /\ txPc[g] = "write"
    /\ conn # 0 /\ connOpen[conn]
    /\ txPc' = [txPc EXCEPT ![g] = "statDeath"]
    /\ txMsg' = 0
    /\ UNCHANGED <<outboundFlowControlQueue, txExit, statIncrementNotifications,
                   connOpen, rxPc>>
    /\ UNCHANGED notTx

\* ctxt.conn.WriteToUDP fails with "use of closed network connection"
TxWriteClosed(g) ==
    /\ txPc[g] = "write"
    /\ conn # 0 /\ ~connOpen[conn]
    /\ txPc' = [txPc EXCEPT ![g] = "statClose"]
    /\ txMsg' = 0
    /\ UNCHANGED <<outboundFlowControlQueue, txExit, statIncrementNotifications,
                   connOpen, rxPc>>
    /\ UNCHANGED notTx

\* ctxt.conn.WriteToUDP returns no error and fewer bytes than the message
\* has: err != nil || n != len(encodedMsg) holds with a nil err, and
\* err.Error() dereferences it.  The task panics; its deferred function runs
\* as on a return, and the program ends when it is through.
TxWriteShort(g) ==
    /\ txPc[g] = "write"
    /\ conn # 0 /\ connOpen[conn]
    /\ txPc' = [txPc EXCEPT ![g] = "sendDied"]
    /\ txExit' = [txExit EXCEPT ![g] = <<"panic", g>>]
    /\ txMsg' = 0
    /\ UNCHANGED <<outboundFlowControlQueue, statIncrementNotifications,
                   connOpen, rxPc>>
    /\ UNCHANGED notTx

\* ctxt.incrementStat(StatType_OUTBOUND_MESSAGES_SENT), back to the select
TxSentStat(g) ==
    /\ txPc[g] = "statSent"
    /\ CanIncrementStat
    /\ statIncrementNotifications' = incrementStat("OUTBOUND_MESSAGES_SENT")
    /\ txPc' = [txPc EXCEPT ![g] = "select"]
    /\ txMsg' = 0
    /\ UNCHANGED <<outboundFlowControlQueue, txExit, connOpen, rxPc>>
    /\ UNCHANGED notTx

\* ctxt.incrementStat(OUTBOUND_CONNECTION_CLOSE or _DEATH); return
TxFailStat(g) ==
    /\ txPc[g] \in {"statClose", "statDeath"}
    /\ CanIncrementStat
    /\ statIncrementNotifications' =
           incrementStat(IF txPc[g] = "statClose"
                         THEN "OUTBOUND_CONNECTION_CLOSE"
                         ELSE "OUTBOUND_CONNECTION_DEATH")
    /\ txPc' = [txPc EXCEPT ![g] = "sendDied"]
    /\ txExit' = [txExit EXCEPT ![g] = <<"write", g>>]
    /\ UNCHANGED <<outboundFlowControlQueue, txMsg, connOpen, rxPc>>
    /\ UNCHANGED notTx

\* case <-ctxt.outboundFlowControlShutdown: return.  The receive completes
\* the send of a listener h that waits in its deferred function.
TxShutdownMsg(g, h) ==
    /\ txPc[g] = "select"
    /\ rxPc[h] = "sendTxShutdown"
    /\ rxPc' = [rxPc EXCEPT ![h] = "done"]
    /\ txPc' = [txPc EXCEPT ![g] = "sendDied"]
    /\ txExit' = [txExit EXCEPT ![g] = <<"shutdownMsg", h>>]
    /\ UNCHANGED <<outboundFlowControlQueue, txMsg, statIncrementNotifications,
                   connOpen>>
    /\ UNCHANGED notTx

\* case <-ctxt.internalShutdownNotification: return
TxInternalShutdown(g) ==
    /\ txPc[g] = "select"
    /\ internalShutdownNotification
    /\ txPc' = [txPc EXCEPT ![g] = "sendDied"]
    /\ txExit' = [txExit EXCEPT ![g] = <<"internalShutdown", g>>]
    /\ UNCHANGED <<outboundFlowControlQueue, txMsg, statIncrementNotifications,
                   connOpen, rxPc>>
    /\ UNCHANGED notTx

\* deferred: ctxt.conn.Close(), after ctxt.outboundDied <- true was received.
\* It closes the socket ctxt.conn refers to when it runs.  The task has
\* returned then, or, when it was panicking, the panic ends the program.
TxCloseConn(g) ==
    /\ txPc[g] = "closeConn"
    /\ connOpen' = [c \in Gens |-> IF c = conn THEN FALSE ELSE connOpen[c]]
    /\ txPc' = [txPc EXCEPT ![g] = IF txExit[g][1] = "panic" THEN "panicked"
                                   ELSE "done"]
    /\ UNCHANGED <<outboundFlowControlQueue, txMsg, txExit,
                   statIncrementNotifications, rxPc>>
    /\ UNCHANGED notTx

\* ------------------------------------------------------------------ listen
DatagramKinds == {"bad", "get", "resp"}

notRx == <<variant, clientVars, requestsFromClients, outstandingRequests,
           nextRequestId, trackerPc, tReq, nResponses, txPc, txMsg, txExit,
           statsPc, fifteenMinuteBins, nextRollover, nTicks, monVars, callVars,
           conn, connOpen, readLimit, role, oidVars, procVars, timeVars, berVars, queryVars,
           internalShutdownNotification>>

\* ctxt.conn.ReadFromUDP returns a datagram
RxRead(g, kind) ==
    /\ rxPc[g] = "read"
    /\ conn # 0 /\ connOpen[conn]
    /\ Len(received) < readLimit
    /\ received' = Append(received, kind)
    /\ rxMsg' = kind
    /\ rxPc' = [rxPc EXCEPT ![g] = "statRecv"]
    /\ UNCHANGED <<responsesFromAgents, outboundFlowControlQueue,
                   statIncrementNotifications, routed>>
    /\ UNCHANGED notRx

\* ctxt.conn.ReadFromUDP fails on an open socket: any other error
RxReadError(g) ==
    /\ rxPc[g] = "read"
    /\ conn # 0 /\ connOpen[conn]
    /\ rxPc' = [rxPc EXCEPT ![g] = "statDeath"]
    /\ UNCHANGED <<responsesFromAgents, outboundFlowControlQueue,
                   statIncrementNotifications, routed, rxMsg, received>>
    /\ UNCHANGED notRx

\* ctxt.conn.ReadFromUDP fails with "use of closed network connection"
RxReadClosed(g) ==
    /\ rxPc[g] = "read"
    /\ conn # 0 /\ ~connOpen[conn]
    /\ rxPc' = [rxPc EXCEPT ![g] = "statClose"]
    /\ UNCHANGED <<responsesFromAgents, outboundFlowControlQueue,
                   statIncrementNotifications, routed, rxMsg, received>>
    /\ UNCHANGED notRx

\* ctxt.incrementStat(StatType_INBOUND_MESSAGES_RECEIVED)
RxRecvStat(g) ==
    /\ rxPc[g] = "statRecv"
    /\ CanIncrementStat
    /\ statIncrementNotifications' = incrementStat("INBOUND_MESSAGES_RECEIVED")
    /\ rxPc' = [rxPc EXCEPT ![g] = "process"]
    /\ UNCHANGED <<responsesFromAgents, outboundFlowControlQueue, routed, rxMsg,
                   received>>
    /\ UNCHANGED notRx

\* The decode failure counted under the first variant's name in both.
UndecodableStatOld == "UNDECODABLE_MESSAGES_RECEIVED"

\* The stat the decode failure counts: the first variant's
\* processIncomingMessage counts UNDECODABLE_MESSAGES_RECEIVED.
UndecodableStat ==
    IF variant = 1 THEN "UNDECODABLE_MESSAGES_RECEIVED"
    ELSE "INBOUND_MESSAGES_UNDECODABLE"

\* processIncomingMessage, decodeMsg fails: count it and return to the read
RxUndecodable(g) ==
    /\ rxPc[g] = "process"
    /\ rxMsg = "bad"
    /\ CanIncrementStat
    /\ statIncrementNotifications' = incrementStat(UndecodableStat)
    /\ rxPc' = [rxPc EXCEPT ![g] = "read"]
    /\ rxMsg' = "none"
    /\ UNCHANGED <<responsesFromAgents, outboundFlowControlQueue, routed,
                   received>>
    /\ UNCHANGED notRx

\* recordIncomingMessage: the stat of the PDU type
PduStat(kind) ==
    IF kind = "get" THEN "GET_REQUESTS_RECEIVED" ELSE "RESPONSES_RECEIVED"

\* processIncomingMessage, decodeMsg succeeds: recordIncomingMessage
RxRecord(g) ==
    /\ rxPc[g] = "process"
    /\ rxMsg # "bad"
    /\ CanIncrementStat
    /\ statIncrementNotifications' = incrementStat(PduStat(rxMsg))
    /\ rxPc' = [rxPc EXCEPT ![g] = "route"]
    /\ UNCHANGED <<responsesFromAgents, outboundFlowControlQueue, routed, rxMsg,
                   received>>
    /\ UNCHANGED notRx

\* RxRouteNoProcessor without the test of incomingRequestProcessor: every
\* request is counted and dropped.
RxRouteDropsEvery(g) ==
    /\ rxPc[g] = "route"
    /\ rxMsg = "get"
    /\ CanIncrementStat
    /\ statIncrementNotifications' =
           incrementStat("COMMUNITY_REQUEST_RECEIVED_WITH_NO_REQUEST_PROCESSOR")
    /\ rxPc' = [rxPc EXCEPT ![g] = "read"]
    /\ rxMsg' = "none"
    /\ UNCHANGED <<responsesFromAgents, outboundFlowControlQueue, routed,
                   received>>
    /\ UNCHANGED notRx

\* routeIncomingMessage, case *communityRequest with no processor registered
RxRouteNoProcessor(g) ==
    /\ rxPc[g] = "route"
    /\ rxMsg = "get"
    /\ incomingRequestProcessor = "nil"
    /\ CanIncrementStat
    /\ statIncrementNotifications' =
           incrementStat("COMMUNITY_REQUEST_RECEIVED_WITH_NO_REQUEST_PROCESSOR")
    /\ rxPc' = [rxPc EXCEPT ![g] = "read"]
    /\ rxMsg' = "none"
    /\ UNCHANGED <<responsesFromAgents, outboundFlowControlQueue, routed,
                   received>>
    /\ UNCHANGED notRx

\* routeIncomingMessage, case *communityRequest: the agent processes the
\* request in the listener's task and ends with sendResponse, a send on the
\* outbound queue
RxRouteRequest(g) ==
    /\ rxPc[g] = "route"
    /\ rxMsg = "get"
    /\ incomingRequestProcessor # "nil"
    /\ Len(outboundFlowControlQueue) < MaxTargets
    /\ outboundFlowControlQueue' = Append(outboundFlowControlQueue, 0)
    /\ routed' = Append(routed, <<rxMsg, "processor">>)
    /\ rxPc' = [rxPc EXCEPT ![g] = "read"]
    /\ rxMsg' = "none"
    /\ UNCHANGED <<responsesFromAgents, statIncrementNotifications, received>>
    /\ UNCHANGED notRx

\* routeIncomingMessage, case SnmpResponse: ctxt.responsesFromAgents <- msg.
\* Only startRequestTracker makes the channel: in the agent role it is nil
\* and the send never completes.
RxRouteResponse(g) ==
    /\ rxPc[g] = "route"
    /\ rxMsg = "resp"
    /\ role = "manager"
    /\ Len(responsesFromAgents) < RespChanCap
    /\ responsesFromAgents' = Append(responsesFromAgents, 0)
    /\ routed' = Append(routed, <<rxMsg, "tracker">>)
    /\ rxPc' = [rxPc EXCEPT ![g] = "read"]
    /\ rxMsg' = "none"
    /\ UNCHANGED <<outboundFlowControlQueue, statIncrementNotifications,
                   received>>
    /\ UNCHANGED notRx

\* NewAgentWithPort, agent.incomingRequestProcessor = agent: the statement
\* after initContext, which has started the listener.
RegisterRequestProcessor ==
    /\ role = "agent"
    /\ incomingRequestProcessor = "nil"
    /\ incomingRequestProcessor' = "agent"
    /\ UNCHANGED <<variant, clientVars, trackVars, txVars, statVars, monVars,
                   callVars, rxVars, oidVars, timeVars, berVars, queryVars,
                   internalShutdownNotification>>

\* ctxt.incrementStat(INBOUND_CONNECTION_CLOSE or _DEATH); return
RxExitStat(g) ==
    /\ rxPc[g] \in {"statClose", "statDeath"}
    /\ CanIncrementStat
    /\ statIncrementNotifications' =
           incrementStat(IF rxPc[g] = "statClose"
                         THEN "INBOUND_CONNECTION_CLOSE"
                         ELSE "INBOUND_CONNECTION_DEATH")
    /\ rxPc' = [rxPc EXCEPT ![g] = "sendDied"]
    /\ UNCHANGED <<responsesFromAgents, outboundFlowControlQueue, routed, rxMsg,
                   received>>
    /\ UNCHANGED notRx

\* routeIncomingMessage, case SnmpResponse, as the tracker sees it: the
\* listener hands over a response that carries request id `id`
DeliverResponse(id) ==
    /\ nResponses < MaxResponses
    /\ Len(responsesFromAgents) < RespChanCap
    /\ responsesFromAgents' = Append(responsesFromAgents, id)
    /\ nResponses' = nResponses + 1
    /\ UNCHANGED <<requests, requestsFromClients, outstandingRequests,
                   nextRequestId, trackerPc, tReq, outboundFlowControlQueue,
                   statIncrementNotifications>>
    /\ UNCHANGED notTracker

\* ----------------------------------------------------------------- monitor
notMon == <<variant, clientVars, trackVars, outboundFlowControlQueue, txMsg,
            txExit, statVars, shutdownSync, callerPc, rxMsg, received,
            readLimit, role, routed, oidVars, procVars, timeVars, berVars, queryVars>>

\* monitor's lastRestartAttempt is declared and never assigned: it stays the
\* zero time.Time, ZeroTimeAge seconds before the context was made.
lastRestartAttempt == 0 - ZeroTimeAge

\* int(math.Max(30 - time.Since(lastRestartAttempt).Seconds(), 0))
restartTimerSeconds ==
    LET d == RestartSeconds - (now - lastRestartAttempt) IN
    IF d > 0 THEN d ELSE 0

\* The head of monitor's loop, run after every case of its select with the
\* values the case left: when both death channels are nil it completes a
\* pending shutdown, or else arms the restart timer.
MonitorLoopTop(inb, outb, sd, timer) ==
    IF outb = "nil" /\ inb = "nil"
    THEN IF sd
         THEN /\ shutDownComplete' = TRUE
              /\ closes' = [closes EXCEPT !.complete = @ + 1]
              /\ monPc' = "done"
              /\ restartTimer' = timer
              /\ UNCHANGED restartDue
         ELSE /\ restartTimer' = "armed"
              /\ restartDue' = now + restartTimerSeconds
              /\ UNCHANGED <<shutDownComplete, closes, monPc>>
    ELSE /\ restartTimer' = timer
         /\ UNCHANGED <<shutDownComplete, closes, monPc, restartDue>>

\* case <-ctxt.externalShutdownNotification
MonitorExternalShutdown ==
    /\ monPc = "select"
    /\ externalShutdownNotification = "closed"
    /\ externalShutdownNotification' = "nil"
    /\ shuttingDown' = TRUE
    /\ connOpen' = [c \in Gens |-> IF c = conn THEN FALSE ELSE connOpen[c]]
    /\ internalShutdownNotification' = TRUE
    /\ MonitorLoopTop(inboundDied, outboundDied, TRUE, restartTimer)
    /\ UNCHANGED <<inboundDied, outboundDied, conn, rxPc, txPc, restartAttempts>>
    /\ UNCHANGED notMon

\* case <-ctxt.outboundDied: the receive completes the deferred send of
\* transmitter g, which goes on to close the socket
MonitorOutboundDied(g) ==
    /\ monPc = "select"
    /\ outboundDied = "chan"
    /\ txPc[g] = "sendDied"
    /\ txPc' = [txPc EXCEPT ![g] = "closeConn"]
    /\ outboundDied' = "nil"
    /\ MonitorLoopTop(inboundDied, "nil", shuttingDown, restartTimer)
    /\ UNCHANGED <<shuttingDown, externalShutdownNotification, inboundDied,
                   conn, connOpen, rxPc, internalShutdownNotification,
                   restartAttempts>>
    /\ UNCHANGED notMon

\* case <-ctxt.inboundDied: the receive completes the deferred send of
\* listener g, which goes on to send on outboundFlowControlShutdown
MonitorInboundDied(g) ==
    /\ monPc = "select"
    /\ inboundDied = "chan"
    /\ rxPc[g] = "sendDied"
    /\ rxPc' = [rxPc EXCEPT ![g] = "sendTxShutdown"]
    /\ inboundDied' = "nil"
    /\ MonitorLoopTop("nil", outboundDied, shuttingDown, restartTimer)
    /\ UNCHANGED <<shuttingDown, externalShutdownNotification, outboundDied,
                   conn, connOpen, txPc, internalShutdownNotification,
                   restartAttempts>>
    /\ UNCHANGED notMon

\* The generation a restart would start.
NextGen == CHOOSE g \in 1..(MaxGen + 1) : \A h \in Gens : rxPc[h] # "none" <=> h < g

\* net.ListenUDP on ctxt.port fails while a socket of an earlier generation
\* is still bound to that port; port 0 gets a port of its own every time.
ListenFails == port # 0 /\ \E c \in Gens : connOpen[c]

\* case <-restartTimer.  The second variant only clears the timer.  The first
\* makes inboundDied and calls startReceiver: when ListenUDP fails,
\* startReceiver sends on inboundDied from the monitor's own task, which
\* nobody receives; otherwise the listener and a transmitter are started.
MonitorRestartTimer ==
    /\ monPc = "select"
    /\ restartTimer = "armed"
    /\ now >= restartDue
    /\ IF variant = 1
       THEN /\ NextGen \in Gens
            /\ inboundDied' = "chan"
            /\ restartAttempts' = Append(restartAttempts, now)
            /\ IF ListenFails
               THEN /\ conn' = 0
                    /\ monPc' = "startReceiver"
                    /\ restartTimer' = "nil"
                    /\ UNCHANGED <<connOpen, rxPc, txPc, outboundDied,
                                   shutDownComplete, closes, restartDue>>
               ELSE /\ conn' = NextGen
                    /\ connOpen' = [connOpen EXCEPT ![NextGen] = TRUE]
                    /\ rxPc' = [rxPc EXCEPT ![NextGen] = "read"]
                    /\ outboundDied' = "chan"
                    /\ txPc' = [txPc EXCEPT ![NextGen] = "select"]
                    /\ MonitorLoopTop("chan", "chan", shuttingDown, "nil")
       ELSE /\ MonitorLoopTop(inboundDied, outboundDied, shuttingDown, "nil")
            /\ UNCHANGED <<inboundDied, outboundDied, conn, connOpen, rxPc, txPc,
                           restartAttempts>>
    /\ UNCHANGED <<shuttingDown, externalShutdownNotification,
                   internalShutdownNotification>>
    /\ UNCHANGED notMon

\* A second passes.
Tick ==
    /\ now < MaxClock
    /\ now' = now + 1
    /\ UNCHANGED <<variant, clientVars, trackVars, txVars, statVars, monVars,
                   callVars, rxVars, oidVars, procVars, berVars, queryVars, port,
                   internalShutdownNotification>>

\* ---------------------------------------------------------------- Shutdown
Callers == 1..NumCallers

notCall == <<variant, clientVars, trackVars, txVars, statVars, monPc,
             shuttingDown, restartTimer, restartDue, restartAttempts,
             shutDownComplete, inboundDied,
             outboundDied, rxVars, oidVars, procVars, timeVars, berVars, queryVars,
             internalShutdownNotification>>

\* Shutdown without the sync.Once: every caller closes the channel and waits.
ShutdownCallNoOnce(c) ==
    /\ callerPc[c] = "idle"
    /\ shutdownSync' = "running"
    /\ externalShutdownNotification' = "closed"
    /\ closes' = [closes EXCEPT !.external = @ + 1]
    /\ callerPc' = [callerPc EXCEPT ![c] = "waitComplete"]
    /\ UNCHANGED notCall

\* Shutdown: ctxt.shutdownSync.Do.  The first caller runs the function and
\* closes externalShutdownNotification; a later caller waits inside Do until
\* the first caller's function has returned.
ShutdownCall(c) ==
    /\ callerPc[c] = "idle"
    /\ IF shutdownSync = "new"
       THEN /\ shutdownSync' = "running"
            /\ externalShutdownNotification' = "closed"
            /\ closes' = [closes EXCEPT !.external = @ + 1]
            /\ callerPc' = [callerPc EXCEPT ![c] = "waitComplete"]
       ELSE /\ callerPc' = [callerPc EXCEPT ![c] = "waitOnce"]
            /\ UNCHANGED <<shutdownSync, externalShutdownNotification, closes>>
    /\ UNCHANGED notCall

\* <-ctxt.shutDownComplete in the first caller: the function and Do return
ShutdownReturn(c) ==
    /\ callerPc[c] = "waitComplete"
    /\ shutDownComplete
    /\ shutdownSync' = "done"
    /\ callerPc' = [callerPc EXCEPT ![c] = "returned"]
    /\ UNCHANGED <<externalShutdownNotification, closes>>
    /\ UNCHANGED notCall

\* Do returns in a later caller, once the first caller's function is done
ShutdownOnceDone(c) ==
    /\ callerPc[c] = "waitOnce"
    /\ shutdownSync = "done"
    /\ callerPc' = [callerPc EXCEPT ![c] = "returned"]
    /\ UNCHANGED <<shutdownSync, externalShutdownNotification, closes>>
    /\ UNCHANGED notCall

\* ------------------------------------------------------- agent: OID lookup
notOid == <<variant, procVars, timeVars, berVars, queryVars, clientVars, trackVars,
            txVars, statVars, monVars, callVars,
            rxVars, internalShutdownNotification>>

\* The object identifiers of the model.
Oids == UNION {[1..n -> 1..MaxArc] : n \in 1..MaxOidLen}

\* ObjectIdentifier.MatchLength: the length of the common prefix.
RECURSIVE MatchLength(_, _)
MatchLength(a, b) ==
    IF a = <<>> \/ b = <<>> \/ Head(a) # Head(b) THEN 0
    ELSE 1 + MatchLength(Tail(a), Tail(b))

\* ObjectIdentifier.Compare: the lexicographic order, as -1, 0 or 1.
Compare(a, b) ==
    LET n == MatchLength(a, b) IN
    IF n = Len(a) /\ n = Len(b) THEN 0
    ELSE IF n = Len(a) THEN -1
    ELSE IF n = Len(b) THEN 1
    ELSE IF a[n + 1] < b[n + 1] THEN -1 ELSE 1

\* A nil *oidTreeNode.
NilNode == <<>>

\* llrb.Tree.Ceil: the smallest stored value equal to or greater than the
\* query, by the query's Compare; nil when there is none.
Ceil(tree, q) ==
    LET above == {n \in tree : Compare(q, n) <= 0} IN
    IF above = {} THEN NilNode
    ELSE CHOOSE n \in above : \A m \in above : Compare(n, m) <= 0

\* Agent.lookupHandler
lookupHandler(oid) ==
    LET node == Ceil(oidTree, oid) IN
    IF node = NilNode THEN NilNode
    ELSE IF MatchLength(node, oid) # Len(node) THEN NilNode
    ELSE node

\* RegisterSingleVarOidHandler: agent.oidTree.Insert.  Handlers are
\* registered before the agent serves requests.
RegisterSingleVarOidHandler(oid) ==
    /\ lookupOid = <<>>
    /\ processed = <<>>
    /\ Cardinality(oidTree) < MaxHandlers
    /\ oidTree' = oidTree \cup {oid}
    /\ UNCHANGED <<lookupOid, lookupResult, processed>>
    /\ UNCHANGED notOid

\* processcommunityRequest, the body of its loop for one varbind: a
\* NoSuchObject varbind with the requested OID when lookupHandler finds no
\* node, the node's handler otherwise.
ProcessVarbind(oid) ==
    /\ lookupOid' = oid
    /\ lookupResult' =
           LET node == lookupHandler(oid) IN
           IF node = NilNode THEN <<"NoSuchObject", oid>>
           ELSE <<"handler", node>>
    /\ UNCHANGED <<oidTree, processed>>
    /\ UNCHANGED notOid

\* The PDU types of the community requests the listener hands to the agent.
PduTypes == {"GET_REQUEST", "GET_NEXT_REQUEST", "SET_REQUEST"}

\* The OIDs a request asks for, and the varbind lists of a request.
RequestOids == {oid \in Oids : Len(oid) < MaxOidLen}

VarbindLists == UNION {[1..n -> RequestOids] : n \in 0..MaxVarbinds}

\* req.createResponse: a response without an error and without varbinds.
createResponse(req) ==
    [errorVal |-> "NO_ERROR", errorIdx |-> 0, varbinds |-> <<>>]

\* resp.AddVarbind
AddVarbind(resp, vb) == [resp EXCEPT !.varbinds = Append(@, vb)]

\* A response marked as C14 does not want it: without the error index.
ResourceUnavailableNoIndex(resp) ==
    [resp EXCEPT !.errorVal = "RESOURCE_UNAVAILABLE"]

\* processcommunityRequest, the branch txn == nil.
ResourceUnavailable(resp) ==
    [resp EXCEPT !.errorVal = "RESOURCE_UNAVAILABLE", !.errorIdx = 1]

\* processcommunityRequest, its loop from the i-th varbind of the request
\* on.  errs are the varbinds whose handler returns an error when called.
\* The switch on req.pduType has a case for GET_REQUEST and SET_REQUEST.
RECURSIVE RangeVarbinds(_, _, _, _)
RangeVarbinds(resp, req, errs, i) ==
    IF i > Len(req.varbinds) THEN resp
    ELSE LET oid == req.varbinds[i]
             node == lookupHandler(oid)
         IN  IF node = NilNode
             THEN RangeVarbinds(AddVarbind(resp, <<"NoSuchObject", oid>>),
                                req, errs, i + 1)
             ELSE IF req.pduType \in {"GET_REQUEST", "SET_REQUEST"}
                       /\ i \notin errs
             THEN RangeVarbinds(AddVarbind(resp, <<"value", oid, node>>),
                                req, errs, i + 1)
             ELSE RangeVarbinds(resp, req, errs, i + 1)

\* Agent.processcommunityRequest up to sendResponse: the response it made.
processcommunityRequest(req, txn, errs) ==
    LET resp == createResponse(req) IN
    RangeVarbinds(IF txn = "nil" THEN ResourceUnavailable(resp) ELSE resp,
                  req, errs, 1)

\* The calls processcommunityRequest makes on agent.txnProvider, in order:
\* StartTxn at its head.  CommitTxn and AbortTxn are called nowhere.
TxnProviderCalls(req, txn) == <<"StartTxn">>

\* The calls processcommunityRequest makes on the handlers, in order, from
\* the i-th varbind of the request on, each with the transaction it passes:
\* node.handler.Get for a GET_REQUEST, node.handler.Set for a SET_REQUEST,
\* for every varbind lookupHandler finds a node for, whatever txn is.
RECURSIVE HandlerCalls(_, _, _)
HandlerCalls(req, txn, i) ==
    IF i > Len(req.varbinds) THEN <<>>
    ELSE LET oid == req.varbinds[i]
             node == lookupHandler(oid)
         IN  IF node = NilNode THEN HandlerCalls(req, txn, i + 1)
             ELSE IF req.pduType = "GET_REQUEST"
             THEN << <<"Get", oid, txn>> >> \o HandlerCalls(req, txn, i + 1)
             ELSE IF req.pduType = "SET_REQUEST"
             THEN << <<"Set", oid, txn>> >> \o HandlerCalls(req, txn, i + 1)
             ELSE HandlerCalls(req, txn, i + 1)

\* The listener hands a community request to the agent; StartTxn returns
\* txn.  sendResponse is a send on the outbound queue, which blocks while
\* the queue is full.
ProcessCommunityRequest(req, txn, errs) ==
    /\ Len(processed) < MaxAgentRequests
    /\ Len(outboundFlowControlQueue) < MaxTargets
    /\ processed' = Append(processed, [req |-> req, txn |-> txn, errs |-> errs,
                                        calls |-> TxnProviderCalls(req, txn),
                                        handlerCalls |->
                                            HandlerCalls(req, txn, 1)])
    /\ outboundFlowControlQueue' =
           Append(outboundFlowControlQueue,
                  processcommunityRequest(req, txn, errs))
    /\ UNCHANGED <<oidTree, lookupOid, lookupResult>>
    /\ UNCHANGED <<variant, berVars, queryVars, timeVars, clientVars, trackVars,
                   txPc, txMsg, txExit, statVars, monVars, callVars, rxVars,
                   procVars, internalShutdownNotification>>

\* ------------------------------------------------------ varbinds and BER
\* The varbind types of varbind.go with their value tags, and the tag of a
\* SEQUENCE header.
Tag == [Integer32 |-> 2, BitString |-> 3, OctetString |-> 4, Null |-> 5,
        ObjectIdentifier |-> 6, Sequence |-> 48, IPv4Address |-> 64,
        Counter32 |-> 65, Gauge32 |-> 66, TimeTicks |-> 67, Opaque |-> 68,
        NsapAddress |-> 69, Counter64 |-> 70, Uint32 |-> 71]

VarbindKinds == DOMAIN Tag \ {"Sequence"}

\* The kinds whose value is an unsigned integer.
UnsignedKinds == {"Counter32", "Gauge32", "TimeTicks", "Counter64", "Uint32"}

\* The kinds whose value is a string of bytes written as it is.
BytesKinds == {"OctetString", "IPv4Address", "Opaque", "NsapAddress"}

\* The OIDs and the values the codec is run on, by kind.  A BitString is
\* <<unused bits, bytes>>.
BerOids == {<<1, 3>>, <<1, 3, 6, 1>>, <<2, BerBig, 128>>}

BerValues ==
    [Integer32 |-> {0 - BerBig, -129, -128, -1, 0, 1, 127, 128, BerBig},
     BitString |-> {<<0, <<>>>>, <<3, <<168>>>>},
     OctetString |-> {<<>>, <<104, 105>>},
     Null |-> {<<>>},
     ObjectIdentifier |-> BerOids,
     IPv4Address |-> {<<127, 0, 0, 1>>},
     Counter32 |-> {0, 128, BerBig},
     Gauge32 |-> {0, 255},
     TimeTicks |-> {1, BerBig},
     Opaque |-> {<<>>, <<1, 2, 3>>},
     NsapAddress |-> {<<0, 0, 0, 0, 0, 0>>, <<1, 2, 3, 4, 5, 6>>},
     Counter64 |-> {0, BerBig},
     Uint32 |-> {127, 256}]

\* A varbind: its type, the OID of baseVarbind, and val.
Varbind(kind, oid, val) == [kind |-> kind, oid |-> oid, val |-> val]

Varbinds ==
    UNION {{Varbind(k, oid, v) : oid \in BerOids, v \in BerValues[k]} :
           k \in VarbindKinds}

\* new(T): the zero value of val.  A nil slice is the empty sequence, and so
\* is the nil *BitString, which no BitString <<unused, bytes>> equals.
ZeroValue(kind) ==
    IF kind = "Integer32" \/ kind \in UnsignedKinds THEN 0
    ELSE IF kind = "NsapAddress" THEN <<0, 0, 0, 0, 0, 0>>
    ELSE <<>>

\* NewIntegerVarbind, NewBitStringVarbind, ...: vb := new(T); vb.oid = oid;
\* return vb.  None of them stores val.
NewVarbind(kind, oid, val) == Varbind(kind, oid, ZeroValue(kind))

\* encodeInteger: two's complement, the fewest bytes that keep the sign.
RECURSIVE encodeInteger(_)
encodeInteger(v) ==
    IF v >= -128 /\ v <= 127 THEN <<v % 256>>
    ELSE encodeInteger(v \div 256) \o <<v % 256>>

\* An unsigned integer: a 0 byte leads when the first byte's top bit is set.
RECURSIVE encodeUnsigned(_)
encodeUnsigned(v) ==
    IF v <= 127 THEN <<v>>
    ELSE encodeUnsigned(v \div 256) \o <<v % 256>>

\* decodeInt32 and its unsigned kin: the first byte carries the sign.
RECURSIVE decodeInteger(_)
decodeInteger(bytes) ==
    IF Len(bytes) = 1
    THEN IF bytes[1] >= 128 THEN bytes[1] - 256 ELSE bytes[1]
    ELSE decodeInteger(SubSeq(bytes, 1, Len(bytes) - 1)) * 256
             + bytes[Len(bytes)]

\* A sub-identifier in base 128, every byte but the last with its top bit set.
RECURSIVE encodeSubId(_)
encodeSubId(n) ==
    IF n < 128 THEN <<n>>
    ELSE LET front == encodeSubId(n \div 128) IN
         [i \in 1..Len(front) |->
             IF front[i] < 128 THEN front[i] + 128 ELSE front[i]]
             \o <<n % 128>>

RECURSIVE encodeSubIds(_)
encodeSubIds(ids) ==
    IF ids = <<>> THEN <<>>
    ELSE encodeSubId(Head(ids)) \o encodeSubIds(Tail(ids))

\* The content of an encoded OID: 40 * a + b, then the other sub-identifiers.
encodeOidContent(oid) ==
    encodeSubIds(<<40 * oid[1] + oid[2]>> \o SubSeq(oid, 3, Len(oid)))

\* The sub-identifiers of a content, read with the continuation bit.
RECURSIVE decodeSubIds(_, _)
decodeSubIds(bytes, acc) ==
    IF bytes = <<>> THEN <<>>
    ELSE IF Head(bytes) >= 128
         THEN decodeSubIds(Tail(bytes), acc * 128 + (Head(bytes) - 128))
         ELSE <<acc * 128 + Head(bytes)>> \o decodeSubIds(Tail(bytes), 0)

decodeObjectIdentifier(bytes) ==
    LET ids == decodeSubIds(bytes, 0)
        first == Head(ids)
    IN  (IF first < 40 THEN <<0, first>>
         ELSE IF first < 80 THEN <<1, first - 40>>
         ELSE <<2, first - 80>>) \o Tail(ids)

\* A header and its content; every length of the model is below 128 and
\* takes the short form.
TLV(tag, content) == <<tag, Len(content)>> \o content

encodeObjectIdentifier(oid) == TLV(Tag.ObjectIdentifier, encodeOidContent(oid))

\* vb.encodeValue, by type.
encodeValue(vb) ==
    TLV(Tag[vb.kind],
        CASE vb.kind = "Integer32" -> encodeInteger(vb.val)
          [] vb.kind \in UnsignedKinds -> encodeUnsigned(vb.val)
          [] vb.kind = "BitString" -> <<vb.val[1]>> \o vb.val[2]
          [] vb.kind = "ObjectIdentifier" -> encodeOidContent(vb.val)
          [] vb.kind = "Null" -> <<>>
          [] vb.kind \in BytesKinds -> vb.val)

\* berEncoder.encodeVarbind: a SEQUENCE of the OID and the value.
encodeVarbind(vb) ==
    TLV(Tag.Sequence, encodeObjectIdentifier(vb.oid) \o encodeValue(vb))

\* decoder.decodeValue: the value of a content, by tag.
decodeValue(tag, content) ==
    CASE tag = Tag.Integer32 -> decodeInteger(content)
      [] tag \in {Tag[k] : k \in UnsignedKinds} -> decodeInteger(content)
      [] tag = Tag.BitString -> <<Head(content), Tail(content)>>
      [] tag = Tag.ObjectIdentifier -> decodeObjectIdentifier(content)
      [] OTHER -> content

DecodeError(msg) == [kind |-> "error", oid |-> <<>>, val |-> msg]

\* decodeVarbind: the header, the OID, the value, then the switch on the
\* value's type, which has a case for six of the types.
decodeVarbind(bytes) ==
    LET varbindHeaderType == bytes[1]
        varbindLength == bytes[2]
        body == SubSeq(bytes, 3, Len(bytes))
        oidLength == body[2]
        oid == decodeObjectIdentifier(SubSeq(body, 3, 2 + oidLength))
        rest == SubSeq(body, 3 + oidLength, Len(body))
        valueType == rest[1]
        valueLength == rest[2]
        value == decodeValue(valueType, SubSeq(rest, 3, 2 + valueLength))
        consumed == 2 + oidLength + 2 + valueLength
        handled == {"Integer32", "BitString", "OctetString", "Null",
                    "ObjectIdentifier", "IPv4Address"}
    IN  IF varbindHeaderType # Tag.Sequence THEN DecodeError("Invalid varbind header type")
        ELSE IF body[1] # Tag.ObjectIdentifier
             THEN DecodeError("Failed to decode object identifier")
        ELSE IF \E k \in handled : valueType = Tag[k]
             THEN IF consumed # varbindLength
                  THEN DecodeError("Decoding varbind consumed too many bytes")
                  ELSE NewVarbind(CHOOSE k \in handled : valueType = Tag[k],
                                  oid, value)
             ELSE DecodeError("Unknown value type")

notBer == <<variant, clientVars, trackVars, txVars, statVars, monVars, callVars,
            rxVars, oidVars, procVars, timeVars, queryVars, internalShutdownNotification>>

\* A varbind is encoded.
EncodeVarbind ==
    /\ wire = <<>>
    /\ wire' = encodeVarbind(berIn)
    /\ UNCHANGED <<berIn, berOut>>
    /\ UNCHANGED notBer

\* The bytes are decoded.
DecodeVarbind ==
    /\ wire # <<>>
    /\ berOut = <<>>
    /\ berOut' = <<decodeVarbind(wire)>>
    /\ UNCHANGED <<berIn, wire>>
    /\ UNCHANGED notBer

\* The next varbind is taken up.
NextVarbind(vb) ==
    /\ berOut # <<>>
    /\ berIn' = vb
    /\ wire' = <<>>
    /\ berOut' = <<>>
    /\ UNCHANGED notBer

\* ------------------------------------------------------- initial conditions
\* startStatTracker and the head of trackStats: an empty increment channel, a
\* ring with a live bin, and nextRollover the seconds since the last
\* fifteen minute boundary of the wall clock, one of `offsets`.
InitStats(offsets) ==
    /\ statIncrementNotifications = <<>>
    /\ fifteenMinuteBins = InitBins
    /\ nextRollover \in offsets
    /\ statsPc = "run"
    /\ nTicks = 0
    /\ statRequests = <<>>
    /\ qPc = "idle"
    /\ qReply = <<>>
    /\ qResults = <<>>

\* startRequestTracker
InitTracker ==
    /\ requestsFromClients = <<>>
    /\ responsesFromAgents = <<>>
    /\ outstandingRequests = [k \in {} |-> 0]
    /\ nextRequestId = 0
    /\ trackerPc = "select"
    /\ tReq = 0
    /\ nResponses = 0

InitClient(n) ==
    /\ submitLimit = n
    /\ cPc = "idle"
    /\ requests = <<>>
    /\ communityRequestPool = MaxTargets
    /\ freed = {}

\* initContext / newContext: the channels as the constructor makes them, and
\* the monitor at its first select.  The second variant has started the first
\* receive/transmit pair (startRxAndTx); the first starts it from the restart
\* timer, armed at once since both death channels are nil.
InitContext(v, p) ==
    /\ variant = v
    /\ port = p
    /\ now = 0
    /\ restartDue = 0
    /\ restartAttempts = <<>>
    /\ outboundFlowControlQueue = <<>>
    /\ txMsg = 0
    /\ txExit = [g \in Gens |-> <<"none", 0>>]
    /\ externalShutdownNotification = "open"
    /\ internalShutdownNotification = FALSE
    /\ shutDownComplete = FALSE
    /\ shuttingDown = FALSE
    /\ monPc = "select"
    /\ shutdownSync = "new"
    /\ callerPc = [c \in Callers |-> "idle"]
    /\ closes = [external |-> 0, complete |-> 0]
    /\ rxMsg = "none"
    /\ received = <<>>
    /\ routed = <<>>
    /\ IF v = 1
       THEN /\ restartTimer = "armed"
            /\ inboundDied = "nil" /\ outboundDied = "nil"
            /\ conn = 0
            /\ connOpen = [g \in Gens |-> FALSE]
            /\ rxPc = [g \in Gens |-> "none"]
            /\ txPc = [g \in Gens |-> "none"]
       ELSE /\ restartTimer = "nil"
            /\ inboundDied = "chan" /\ outboundDied = "chan"
            /\ conn = 1
            /\ connOpen = [g \in Gens |-> g = 1]
            /\ rxPc = [g \in Gens |-> IF g = 1 THEN "read" ELSE "none"]
            /\ txPc = [g \in Gens |-> IF g = 1 THEN "select" ELSE "none"]

\* NewAgentWithPort has returned: an agent is its own request processor, and
\* a context made without one has none.
InitProcessor ==
    incomingRequestProcessor = IF role = "agent" THEN "agent" ELSE "nil"

\* The codec with a varbind of `vbs` to encode.
InitBer(vbs) ==
    /\ berIn \in vbs
    /\ wire = <<>>
    /\ berOut = <<>>

\* No handler lookup is in progress.
InitOid ==
    /\ oidTree = {}
    /\ lookupOid = <<>>
    /\ lookupResult = <<>>
    /\ processed = <<>>

\* ------------------------------------------- the request tracker at work
InitTrack ==
    /\ InitContext(2, DefaultAgentPort)
    /\ role = "manager"
    /\ readLimit = 0
    /\ InitProcessor
    /\ InitStats({0})
    /\ InitTracker
    /\ InitClient(MaxReq)
    /\ InitOid
    /\ InitBer({Varbind("Null", <<1, 3>>, <<>>)})

NextTrack ==
    \/ \E r \in Retries : AllocateCommunityRequest(r)
    \/ SendRequestIncrement
    \/ SendRequestEnqueue
    \/ \E r \in Submitted : TimerFire(r)
    \/ TrackNewRequest
    \/ TrackForwardStat
    \/ TrackPush
    \/ TrackResponse
    \/ TrackDropStat
    \/ TrackReleaseNotify
    \/ \E r \in Submitted : TrackTimeout(r)
    \/ TrackUnknownStat
    \/ TrackTimedOutStat
    \/ TrackExhaustedNotify
    \/ TrackShutdown
    \/ \E id \in 1..MaxReq : DeliverResponse(id)
    \/ TxTake(1)
    \/ TxWriteOk(1)
    \/ TxSentStat(1)
    \/ TrackStatsIncrement
    \/ TrackStatsShutdown
    \/ ShutdownCall(1)
    \/ MonitorExternalShutdown

SpecTrack == InitTrack /\ [][NextTrack]_vars

\* ------------------------------------------ submissions on a stalled link
\* The client submits pooled requests while no write on the socket completes:
\* the transmitter takes a message and stays in WriteToUDP.  Requests complete
\* by timing out, and the client returns completed requests to the pool.
InitStall ==
    /\ InitContext(2, DefaultAgentPort)
    /\ role = "manager"
    /\ readLimit = 0
    /\ InitProcessor
    /\ InitStats({0})
    /\ InitTracker
    /\ InitClient(MaxTargets + 1)
    /\ InitOid
    /\ InitBer({Varbind("Null", <<1, 3>>, <<>>)})

NextStall ==
    \/ \E r \in Retries : AllocateCommunityRequest(r)
    \/ SendRequestIncrement
    \/ SendRequestEnqueue
    \/ \E r \in Submitted : FreeCommunityRequest(r)
    \/ \E r \in Submitted : TimerFire(r)
    \/ TrackNewRequest
    \/ TrackForwardStat
    \/ TrackPush
    \/ \E r \in Submitted : TrackTimeout(r)
    \/ TrackTimedOutStat
    \/ TrackExhaustedNotify
    \/ TxTake(1)
    \/ TrackStatsIncrement

SpecStall == InitStall /\ [][NextStall]_vars

\* --------------------------------------- messages that fail to encode
\* The manager's requests on a working link, where msg.encode may return an
\* error for a message the controller took from the queue.  A request whose
\* message was dropped completes by its timer, after its retries.
NextEncode ==
    \/ \E r \in Retries : AllocateCommunityRequest(r)
    \/ SendRequestIncrement
    \/ SendRequestEnqueue
    \/ \E r \in Submitted : TimerFire(r)
    \/ TrackNewRequest
    \/ TrackForwardStat
    \/ TrackPush
    \/ \E r \in Submitted : TrackTimeout(r)
    \/ TrackTimedOutStat
    \/ TrackExhaustedNotify
    \/ TxTake(1)
    \/ TxEncodeError(1)
    \/ TxWriteOk(1)
    \/ TxSentStat(1)
    \/ TrackStatsIncrement

SpecEncode == InitTrack /\ [][NextEncode]_vars

\* Every task that can take a step eventually takes one: the controller's
\* select receives when a message is queued, whatever msg.encode then
\* returns, and the link completes every write.  The client and the timers
\* owe nothing.
FairSpecEncode ==
    /\ SpecEncode
    /\ WF_vars(TxTake(1) \/ TxEncodeError(1))
    /\ WF_vars(TxWriteOk(1)) /\ WF_vars(TxSentStat(1))
    /\ WF_vars(TrackStatsIncrement)

\* ------------------------------------------------- request ids over time
\* The client keeps submitting pooled requests on a working link until the
\* tracker has assigned one id more than nextRequestId has values.  A
\* request stays outstanding for as long as its timer does not fire.
InitIds ==
    /\ InitContext(2, DefaultAgentPort)
    /\ role = "manager"
    /\ readLimit = 0
    /\ InitProcessor
    /\ InitStats({0})
    /\ InitTracker
    /\ InitClient(IdModulus + 1)
    /\ InitOid
    /\ InitBer({Varbind("Null", <<1, 3>>, <<>>)})

\* Every request is configured without a retry: it completes at the first
\* fire of its timer.
NextIds ==
    \/ AllocateCommunityRequest(1)
    \/ SendRequestIncrement
    \/ SendRequestEnqueue
    \/ \E r \in Submitted : FreeCommunityRequest(r)
    \/ \E r \in Submitted : TimerFire(r)
    \/ TrackNewRequest
    \/ TrackForwardStat
    \/ TrackPush
    \/ \E r \in Submitted : TrackTimeout(r)
    \/ TrackExhaustedNotify
    \/ TxTake(1)
    \/ TxWriteOk(1)
    \/ TxSentStat(1)
    \/ TrackStatsIncrement

SpecIds == InitIds /\ [][NextIds]_vars

\* ------------------------------------------------- the supervised lifecycle
\* Either variant, in either role, with the socket's datagrams and errors and
\* the callers of Shutdown as the environment.
InitLife ==
    /\ \/ InitContext(2, DefaultAgentPort)
       \/ \E p \in {0, DefaultAgentPort} : InitContext(1, p)
    /\ role \in {"manager", "agent"}
    /\ readLimit = LifeDatagrams
    /\ InitProcessor
    /\ InitStats({0})
    /\ InitTracker
    /\ InitClient(0)
    /\ InitOid
    /\ InitBer({Varbind("Null", <<1, 3>>, <<>>)})

\* The steps of the context's own tasks.
LifeTasks ==
    \/ \E g \in Gens : TxTake(g)
    \/ \E g \in Gens : TxWriteOk(g)
    \/ \E g \in Gens : TxWriteClosed(g)
    \/ \E g \in Gens : TxSentStat(g)
    \/ \E g \in Gens : TxFailStat(g)
    \/ \E g, h \in Gens : TxShutdownMsg(g, h)
    \/ \E g \in Gens : TxInternalShutdown(g)
    \/ \E g \in Gens : TxCloseConn(g)
    \/ \E g \in Gens : RxReadClosed(g)
    \/ \E g \in Gens : RxRecvStat(g)
    \/ \E g \in Gens : RxUndecodable(g)
    \/ \E g \in Gens : RxRecord(g)
    \/ \E g \in Gens : RxRouteNoProcessor(g)
    \/ \E g \in Gens : RxRouteRequest(g)
    \/ \E g \in Gens : RxRouteResponse(g)
    \/ \E g \in Gens : RxExitStat(g)
    \/ TrackStatsIncrement
    \/ TrackStatsShutdown
    \/ MonitorExternalShutdown
    \/ \E g \in Gens : MonitorOutboundDied(g)
    \/ \E g \in Gens : MonitorInboundDied(g)
    \/ MonitorRestartTimer
    \/ \E c \in Callers : ShutdownReturn(c)
    \/ \E c \in Callers : ShutdownOnceDone(c)

\* What the network and the callers do.
LifeEnvironment ==
    \/ \E g \in Gens, kind \in DatagramKinds : RxRead(g, kind)
    \/ \E g \in Gens : RxReadError(g)
    \/ \E g \in Gens : TxWriteError(g)
    \/ \E c \in Callers : ShutdownCall(c)

NextLife == LifeTasks \/ LifeEnvironment

SpecLife == InitLife /\ [][NextLife]_vars

\* Every task that can take a step eventually takes one (the Go scheduler
\* runs every runnable goroutine); the environment owes nothing.
FairSpecLife ==
    /\ SpecLife
    /\ \A g \in Gens :
          /\ WF_vars(TxTake(g)) /\ WF_vars(TxWriteOk(g))
          /\ WF_vars(TxWriteClosed(g)) /\ WF_vars(TxSentStat(g))
          /\ WF_vars(TxFailStat(g)) /\ WF_vars(TxInternalShutdown(g))
          /\ WF_vars(TxCloseConn(g)) /\ WF_vars(RxReadClosed(g))
          /\ WF_vars(RxRecvStat(g)) /\ WF_vars(RxUndecodable(g))
          /\ WF_vars(RxRecord(g)) /\ WF_vars(RxRouteNoProcessor(g))
          /\ WF_vars(RxRouteRequest(g)) /\ WF_vars(RxRouteResponse(g))
          /\ WF_vars(RxExitStat(g))
          /\ WF_vars(MonitorOutboundDied(g)) /\ WF_vars(MonitorInboundDied(g))
          /\ \A h \in Gens : WF_vars(TxShutdownMsg(g, h))
    /\ WF_vars(TrackStatsIncrement) /\ WF_vars(TrackStatsShutdown)
    /\ WF_vars(MonitorExternalShutdown) /\ WF_vars(MonitorRestartTimer)
    /\ \A c \in Callers : WF_vars(ShutdownReturn(c)) /\ WF_vars(ShutdownOnceDone(c))

\* ------------------------------------------ the lifecycle with short writes
\* The supervised lifecycle on a socket whose writes may also come back
\* short without an error.
NextWrite ==
    \/ NextLife
    \/ \E g \in Gens : TxWriteShort(g)

SpecWrite == InitLife /\ [][NextWrite]_vars

\* ------------------------------------------------ the listener left alone
\* The second variant's listener reads datagrams on a healthy socket; the
\* transmitter sends what the agent answers.
InitRx ==
    /\ InitContext(2, DefaultAgentPort)
    /\ role \in {"manager", "agent"}
    /\ readLimit = MaxDatagrams
    /\ InitProcessor
    /\ InitStats({0})
    /\ InitTracker
    /\ InitClient(0)
    /\ InitOid
    /\ InitBer({Varbind("Null", <<1, 3>>, <<>>)})

NextRx ==
    \/ \E kind \in DatagramKinds : RxRead(1, kind)
    \/ RxRecvStat(1)
    \/ RxUndecodable(1)
    \/ RxRecord(1)
    \/ RxRouteNoProcessor(1)
    \/ RxRouteRequest(1)
    \/ RxRouteResponse(1)
    \/ TxTake(1)
    \/ TxWriteOk(1)
    \/ TxSentStat(1)
    \/ TrackStatsIncrement

SpecRx == InitRx /\ [][NextRx]_vars

\* Every task that can take a step eventually takes one; the network owes no
\* datagram.
FairSpecRx ==
    /\ SpecRx
    /\ WF_vars(RxRecvStat(1)) /\ WF_vars(RxUndecodable(1))
    /\ WF_vars(RxRecord(1)) /\ WF_vars(RxRouteNoProcessor(1))
    /\ WF_vars(RxRouteRequest(1)) /\ WF_vars(RxRouteResponse(1))
    /\ WF_vars(TxTake(1)) /\ WF_vars(TxWriteOk(1)) /\ WF_vars(TxSentStat(1))
    /\ WF_vars(TrackStatsIncrement)

\* ------------------------------------------ the listener of a new context
\* The listener from the return of initContext on: no request processor is
\* registered yet, and NewAgentWithPort registers the agent while the
\* listener runs.
InitRoute ==
    /\ InitContext(2, DefaultAgentPort)
    /\ role \in {"manager", "agent"}
    /\ readLimit = MaxDatagrams
    /\ incomingRequestProcessor = "nil"
    /\ InitStats({0})
    /\ InitTracker
    /\ InitClient(0)
    /\ InitOid
    /\ InitBer({Varbind("Null", <<1, 3>>, <<>>)})

NextRoute ==
    \/ NextRx
    \/ RegisterRequestProcessor

SpecRoute == InitRoute /\ [][NextRoute]_vars

\* ------------------------------------------------ the lifecycle on a clock
\* The first variant, whose monitor restarts the pair, while seconds pass.
InitClock ==
    /\ \E p \in {0, DefaultAgentPort} : InitContext(1, p)
    /\ role = "manager"
    /\ readLimit = 0
    /\ InitProcessor
    /\ InitStats({0})
    /\ InitTracker
    /\ InitClient(0)
    /\ InitOid
    /\ InitBer({Varbind("Null", <<1, 3>>, <<>>)})

\* Reads fail, the pair dies and is restarted; nobody calls Shutdown.
NextClock ==
    \/ \E g \in Gens : RxReadError(g)
    \/ \E g \in Gens : RxReadClosed(g)
    \/ \E g \in Gens : RxExitStat(g)
    \/ \E g, h \in Gens : TxShutdownMsg(g, h)
    \/ \E g \in Gens : TxCloseConn(g)
    \/ TrackStatsIncrement
    \/ \E g \in Gens : MonitorOutboundDied(g)
    \/ \E g \in Gens : MonitorInboundDied(g)
    \/ MonitorRestartTimer
    \/ Tick

SpecClock == InitClock /\ [][NextClock]_vars

\* --------------------------------------------------- the ring of stats bins
\* The stats tracker of either variant with its ticker, and tasks that count.
InitStatsRing ==
    /\ \E v \in {1, 2} : InitContext(v, DefaultAgentPort)
    /\ role = "manager"
    /\ readLimit = 0
    /\ InitProcessor
    /\ InitStats(0..(RolloverSeconds - 1))
    /\ InitTracker
    /\ InitClient(0)
    /\ InitOid
    /\ InitBer({Varbind("Null", <<1, 3>>, <<>>)})

NextStats ==
    \/ StatsTick
    \/ TrackStatsIncrement
    \/ \E k \in {"REQUESTS_SENT", "OUTBOUND_MESSAGES_SENT"} : IncrementStatCall(k)
    \/ \E bin \in QueryBins :
          \/ GetStatCall(FALSE, "REQUESTS_SENT", bin)
          \/ GetStatCall(TRUE, "none", bin)
    \/ TrackStatsRequest
    \/ GetStatReturn

SpecStats == InitStatsRing /\ [][NextStats]_vars

\* ------------------------------------------------- the codec of a varbind
\* Every varbind of the model is encoded and the bytes decoded again.
InitCodec ==
    /\ InitContext(2, DefaultAgentPort)
    /\ role = "manager"
    /\ readLimit = 0
    /\ InitProcessor
    /\ InitStats({0})
    /\ InitTracker
    /\ InitClient(0)
    /\ InitOid
    /\ InitBer(Varbinds)

NextCodec ==
    \/ EncodeVarbind
    \/ DecodeVarbind
    \/ \E vb \in Varbinds : NextVarbind(vb)

SpecBer == InitCodec /\ [][NextCodec]_vars

\* ------------------------------------------------- the agent's OID lookup
InitLookup ==
    /\ InitContext(2, DefaultAgentPort)
    /\ role = "agent"
    /\ readLimit = 0
    /\ InitProcessor
    /\ InitStats({0})
    /\ InitTracker
    /\ InitClient(0)
    /\ InitOid
    /\ InitBer({Varbind("Null", <<1, 3>>, <<>>)})

NextLookup ==
    \/ \E oid \in Oids : RegisterSingleVarOidHandler(oid)
    \/ \E oid \in Oids : ProcessVarbind(oid)

SpecOid == InitLookup /\ [][NextLookup]_vars

\* ------------------------------------------- the agent's request processor
\* Handlers are registered, then the agent is handed community requests.
NextAgent ==
    \/ \E oid \in Oids : RegisterSingleVarOidHandler(oid)
    \/ \E pduType \in PduTypes, varbinds \in VarbindLists, txn \in {"nil", "txn"} :
          \E errs \in SUBSET (1..Len(varbinds)) :
             ProcessCommunityRequest([varbinds |-> varbinds, pduType |-> pduType],
                                     txn, errs)

SpecAgent == InitLookup /\ [][NextAgent]_vars

\* ====================================================================
\* The claims
\* ====================================================================
\* The live bin's count of a stat, as GetStat reads it.
LiveStat(k) == StatOf(fifteenMinuteBins[1].Stats, k)

\* sendRequest has returned for request r.
SendReturned(r) == r < Len(requests) \/ cPc = "idle"

\* Where a request is.
InSend(r) == cPc \in {"stat", "send"} /\ r = Len(requests)

InChannel(r) ==
    \E i \in 1..Len(requestsFromClients) : requestsFromClients[i] = r

InTable(r) ==
    \E id \in DOMAIN outstandingRequests : outstandingRequests[id] = r

InTrackerHand(r) == tReq = r /\ trackerPc \in {"relStat", "exhStat"}

NotifiedResponse(r) ==
    /\ requests[r].notified = 1
    /\ requests[r].response
    /\ requests[r].transportError = "none"

NotifiedTimeout(r) ==
    /\ requests[r].notified = 1
    /\ ~requests[r].response
    /\ requests[r].transportError = "Timeout"

Count(b) == IF b THEN 1 ELSE 0

\* C1, as the specification states it: once the tracker has shut down, every
\* request sendRequest accepted has been notified with a response, or notified
\* with Timeout, or is in the outstanding table, and exactly one of the three.
CE_C1 ==
    trackerPc = "done" =>
        \A r \in Submitted :
            SendReturned(r) =>
                Count(NotifiedResponse(r)) + Count(NotifiedTimeout(r))
                    + Count(requests[r].notified = 0 /\ InTable(r)) = 1

\* C1, amended: every request is notified at most once, with a response or
\* with Timeout and never both; a request that is not notified is in exactly
\* one place: with its sender, in requestsFromClients, in the outstanding
\* table, or in the tracker's hands between the removal from the table and
\* the notification.
Thm_C1 ==
    \A r \in Submitted :
        /\ requests[r].notified <= 1
        /\ ~(requests[r].response /\ requests[r].transportError = "Timeout")
        /\ Count(NotifiedResponse(r)) + Count(NotifiedTimeout(r))
               + Count(requests[r].notified = 0 /\ InSend(r))
               + Count(requests[r].notified = 0 /\ InChannel(r))
               + Count(requests[r].notified = 0 /\ InTable(r))
               + Count(requests[r].notified = 0 /\ InTrackerHand(r)) = 1

\* The tracker has shut down with one request answered and another, which
\* sendRequest accepted, still in requestsFromClients.
Wit_C1 ==
    /\ trackerPc = "done"
    /\ \E r \in Submitted : NotifiedResponse(r)
    /\ \E r \in Submitted : SendReturned(r) /\ InChannel(r)

\* C5, as the specification states it: a request notified with Timeout was
\* pushed onto the outbound queue retries + 1 times.
CE_C5 ==
    \A r \in Submitted :
        NotifiedTimeout(r) => requests[r].pushes = requests[r].retries + 1

\* Nothing is on its way: no sendRequest in progress, no request waiting for
\* the tracker, the tracker at its select (or gone), no increment buffered.
Quiescent ==
    /\ cPc = "idle"
    /\ requestsFromClients = <<>>
    /\ trackerPc \in {"select", "done"}
    /\ statIncrementNotifications = <<>>

\* C9: at quiescence REQUESTS_FORWARDED_TO_FLOW_CONTROL equals REQUESTS_SENT
\* plus REQUESTS_TIMED_OUT.
Thm_C9 ==
    Quiescent =>
        LiveStat("REQUESTS_FORWARDED_TO_FLOW_CONTROL")
            = LiveStat("REQUESTS_SENT") + LiveStat("REQUESTS_TIMED_OUT")

\* Quiescence after every request was completed, one of them after a retry.
Wit_C9 ==
    /\ Quiescent
    /\ Len(requests) = MaxReq
    /\ \A r \in Submitted : requests[r].notified = 1
    /\ LiveStat("REQUESTS_TIMED_OUT") >= 1
    /\ LiveStat("REQUESTS_SENT") = MaxReq

\* The requests submitted and not completed.
Incomplete == {r \in Submitted : requests[r].notified = 0}

ShutdownCalled == \E c \in Callers : callerPc[c] # "idle"

\* C2: however many callers, externalShutdownNotification is closed once and
\* shutDownComplete is closed once, and a caller has returned only after
\* shutDownComplete was closed.
Thm_C2 ==
    /\ closes.external <= 1
    /\ closes.complete <= 1
    /\ \A c \in Callers :
          callerPc[c] = "returned" => shutDownComplete /\ closes.complete = 1

\* Every caller of Shutdown has returned, after one close sequence.
Wit_C2 ==
    /\ \A c \in Callers : callerPc[c] = "returned"
    /\ closes.external = 1

\* C3, as the specification states it: in the second variant, once Shutdown
\* is called the supervisor eventually closes shutDownComplete.
CE_C3 == (variant = 2 /\ ShutdownCalled) ~> shutDownComplete

CountIn(seq, x) == Cardinality({i \in 1..Len(seq) : seq[i] = x})

\* The increments of a stat issued so far: applied to the live bin or buffered.
Issued(k) == LiveStat(k) + CountIn(statIncrementNotifications, k)

\* The datagrams routeIncomingMessage hands on in the context's role.
Routable(kind) ==
    \/ kind = "resp" /\ role = "manager"
    \/ kind = "get" /\ role = "agent"

\* No read on the socket has failed with an error of its own.
NoReadError ==
    /\ Issued("INBOUND_CONNECTION_DEATH") = 0
    /\ \A g \in Gens : rxPc[g] # "statDeath"

\* C4, as the specification states it: in the variant that restarts, as long
\* as no read has failed of its own, a transmitter that leaves its loop on a
\* shutdown message got the message from the listener of its own generation:
\* no signal left over from an earlier generation ends it.
CE_C4 ==
    variant = 1 /\ NoReadError =>
        \A g \in Gens : txExit[g][1] = "shutdownMsg" => txExit[g][2] = g

\* C7: every undecodable datagram is counted once under
\* INBOUND_MESSAGES_UNDECODABLE, none is routed, and the listener goes on:
\* when it is back at its read, the datagrams handed to the processor or the
\* tracker are the routable ones received, in order, those after an
\* undecodable one included.
Thm_C7 ==
    variant = 2 =>
        /\ Issued("INBOUND_MESSAGES_UNDECODABLE")
               + Count(rxPc[1] \in {"statRecv", "process"} /\ rxMsg = "bad")
               = CountIn(received, "bad")
        /\ \A i \in 1..Len(routed) : routed[i][1] # "bad"
        /\ rxPc[1] = "read" =>
               [i \in 1..Len(routed) |-> routed[i][1]]
                   = SelectSeq(received, Routable)

\* An undecodable datagram was counted and dropped, and the datagram after it
\* was routed.
Wit_C7 ==
    /\ variant = 2
    /\ Len(received) >= 2
    /\ received[1] = "bad"
    /\ Routable(received[2])
    /\ Len(routed) = 1
    /\ rxPc[1] = "read"
    /\ LiveStat("INBOUND_MESSAGES_UNDECODABLE") = 1

\* The ring as C10 describes it after a rollover of `bins`, ticked: every slot
\* idx from the last down to 1 holds what slot idx - 1 held, slot 0 is empty.
RolledOver(before, after) ==
    /\ DOMAIN after \subseteq 1..RingSlots
    /\ after[1] = newStatsBin
    /\ \A i \in 2..RingSlots :
          /\ i \in DOMAIN after <=> (i - 1) \in DOMAIN before
          /\ i \in DOMAIN after =>
                after[i] = IF i = 2
                           THEN [before[1] EXCEPT !.NumSeconds = @ + 1]
                           ELSE before[i - 1]

\* C10, as the specification states it: the ring keeps its 97 slots, and the
\* tick that reaches nextRollover shifts every bin one slot up, leaves an
\* empty live bin, and leaves the stats tracker running.
CE_C10 ==
    [][(nTicks' = nTicks + 1
            /\ fifteenMinuteBins[1].NumSeconds + 1 = nextRollover)
        => /\ statsPc' = "run"
           /\ RolledOver(fifteenMinuteBins, fifteenMinuteBins')]_vars

\* Handler OID h covers the requested OID: it is equal to it or a prefix of it.
Covers(h, oid) == Len(h) <= Len(oid) /\ SubSeq(oid, 1, Len(h)) = h

\* C8, as the specification states it: a varbind goes to a registered
\* handler exactly when some registered OID covers the requested OID, and
\* gets a NoSuchObject varbind with the requested OID otherwise.
CE_C8 ==
    lookupOid # <<>> =>
        IF \E h \in oidTree : Covers(h, lookupOid)
        THEN lookupResult[1] = "handler" /\ lookupResult[2] \in oidTree
        ELSE lookupResult = <<"NoSuchObject", lookupOid>>

\* C11, as the specification states it: whatever the start time, after N
\* ticks of uptime, N less than a rollover period, the live bin's NumSeconds
\* is N.
CE_C11 == nTicks < RolloverSeconds => fifteenMinuteBins[1].NumSeconds = nTicks

\* C12, as the specification states it: the stats tracker answers every query
\* with one reply, a value or nil ("bin not available"), nil for every bin
\* past the ring, and is still running after it.
CE_C12 ==
    [][TrackStatsRequest =>
          /\ statsPc' = "run"
          /\ qPc' = "replied"
          /\ qReply'[1] \in {"nil", "int", "bin"}
          /\ (statRequests.bin >= RingSlots => qReply'[1] = "nil")]_vars

\* C13, as the specification states it: decoding the encoding of a varbind
\* gives a varbind of the same type with the same OID and the same value.
CE_C13 ==
    berOut # <<>> =>
        /\ berOut[1].kind = berIn.kind
        /\ berOut[1].oid = berIn.oid
        /\ berOut[1].val = berIn.val

\* C14: a request whose StartTxn returned nil has one response on the outbound
\* queue, with error-status RESOURCE_UNAVAILABLE and error-index 1.
Thm_C14 ==
    /\ Len(outboundFlowControlQueue) = Len(processed)
    /\ \A i \in 1..Len(processed) :
          processed[i].txn = "nil" =>
              /\ outboundFlowControlQueue[i].errorVal = "RESOURCE_UNAVAILABLE"
              /\ outboundFlowControlQueue[i].errorIdx = 1

\* A request with varbinds was processed without a transaction, and its
\* response is queued.
Wit_C14 ==
    \E i \in 1..Len(processed) :
        /\ processed[i].txn = "nil"
        /\ processed[i].req.varbinds # <<>>
        /\ outboundFlowControlQueue[i].errorVal = "RESOURCE_UNAVAILABLE"

\* The response varbinds C15 expects for the varbinds of req from the i-th
\* on: one for a covered OID whose handler succeeds, none for one whose
\* handler fails, NoSuchObject for an OID no handler covers.
RECURSIVE ExpectedVarbinds(_, _, _)
ExpectedVarbinds(req, errs, i) ==
    IF i > Len(req.varbinds) THEN <<>>
    ELSE LET oid == req.varbinds[i] IN
         (IF \E h \in oidTree : Covers(h, oid)
          THEN IF i \in errs THEN <<>> ELSE << <<"value", oid>> >>
          ELSE << <<"NoSuchObject", oid>> >>)
             \o ExpectedVarbinds(req, errs, i + 1)

\* C15, as the specification states it: one response per request, and in it,
\* in the order of the request, a varbind for every covered OID whose handler
\* succeeded and a NoSuchObject varbind for every OID no handler covers.
CE_C15 ==
    /\ Len(outboundFlowControlQueue) = Len(processed)
    /\ \A i \in 1..Len(processed) :
          LET vbs == outboundFlowControlQueue[i].varbinds IN
          [k \in 1..Len(vbs) |-> <<vbs[k][1], vbs[k][2]>>]
              = ExpectedVarbinds(processed[i].req, processed[i].errs, 1)

\* ListenUDP failed in startReceiver, which is at its send on inboundDied.
ListenFailed == conn = 0 /\ inboundDied = "chan" /\ monPc = "startReceiver"

\* C16, as the specification states it: after a failure to open the socket
\* the supervisor gets the inbound death and goes on to arm the restart
\* timer, or to complete a pending shutdown.
CE_C16 ==
    (ListenFailed /\ ~ShutdownCalled) ~>
        (monPc \in {"select", "done"}
            /\ (restartTimer = "armed" \/ shutDownComplete))

\* Both I/O tasks are dead, no shutdown is pending, the restart timer is armed.
RestartScheduled ==
    /\ monPc = "select"
    /\ inboundDied = "nil" /\ outboundDied = "nil"
    /\ ~shuttingDown
    /\ restartTimer = "armed"

\* A listener and a transmitter are at work on an open socket.
Running ==
    \E g \in Gens :
        conn = g /\ connOpen[g] /\ rxPc[g] = "read" /\ txPc[g] = "select"

\* C17, as the specification states it: once both I/O tasks are dead and the
\* restart timer is armed, the timer's fire opens a new socket and starts a
\* new listener and a new transmitter, unless Shutdown is called first.
CE_C17 == (variant = 2 /\ RestartScheduled) ~> (Running \/ ShutdownCalled)

\* C18, as the specification states it: two successive restart attempts are
\* at least the restart delay apart.
CE_C18 ==
    \A i \in 2..Len(restartAttempts) :
        restartAttempts[i] - restartAttempts[i - 1] >= RestartSeconds

\* C19, as the specification states it: a transmitter's deferred Close closes
\* the socket of its own generation (or none, when ctxt.conn is nil), never
\* the socket a restart has opened since.
CE_C19 == [][\A g \in Gens : TxCloseConn(g) => conn \in {0, g}]_vars

\* C20, as the specification states it: shutDownComplete is closed only when
\* every listener and every transmitter has returned.
CE_C20 ==
    shutDownComplete =>
        \A g \in Gens : rxPc[g] \in {"none", "done"} /\ txPc[g] \in {"none", "done"}

\* Every task of the I/O pair, the stats tracker and the supervisor has
\* returned.
AllTasksExited ==
    /\ monPc = "done"
    /\ statsPc = "done"
    /\ \A g \in Gens : rxPc[g] \in {"none", "done"} /\ txPc[g] \in {"none", "done"}

\* C21, as the specification states it: once the shutdown is broadcast (the
\* supervisor has closed internalShutdownNotification), the supervisor, the
\* stats tracker, every listener and every transmitter eventually return.
CE_C21 == internalShutdownNotification ~> AllTasksExited

\* C22, as the specification states it: when a request's response is queued,
\* a transaction StartTxn returned for it has been finished once, by
\* CommitTxn or by AbortTxn.
CE_C22 ==
    \A i \in 1..Len(processed) :
        processed[i].txn # "nil" =>
            CountIn(processed[i].calls, "CommitTxn")
                + CountIn(processed[i].calls, "AbortTxn") = 1

\* Listener g returns from routeIncomingMessage in this step.
RouteReturns(g) == rxPc[g] = "route" /\ rxPc'[g] # "route"

CE_C24 == (rxPc[1] = "route") ~> (rxPc[1] = "read")

\* Request r is in the outbound queue.
InOutboundQueue(r) ==
    \E i \in 1..Len(outboundFlowControlQueue) : outboundFlowControlQueue[i] = r

\* C25, as the specification states it: every request of the outstanding
\* table has its timer armed or is in the outbound queue.
CE_C25 ==
    \A id \in DOMAIN outstandingRequests :
        LET r == outstandingRequests[id] IN
        requests[r].timer = "running" \/ InOutboundQueue(r)

\* C25, amended: every request of the outstanding table has its timer armed,
\* or its timer has fired and the expiry waits for the tracker to receive it
\* from requestTimeouts; the timer of a request in the table is never stopped.
Thm_C25 ==
    \A id \in DOMAIN outstandingRequests :
        requests[outstandingRequests[id]].timer \in {"running", "fired"}

\* A request was retried and sent, and the timer the retry armed has fired:
\* the request is in the table with no timer armed and out of the queue.
Wit_C25 ==
    \E r \in Submitted :
        /\ InTable(r)
        /\ requests[r].timer = "fired"
        /\ requests[r].retriesRemaining < requests[r].retries
        /\ ~InOutboundQueue(r)

\* C26, as the specification states it: the id the tracker assigns to a new
\* request is the id of no request of the outstanding table, so that the
\* insert replaces no entry.
CE_C26 ==
    [][TrackNewRequest => nextRequestId' \notin DOMAIN outstandingRequests]_vars

\* A step leaves the outstanding table, the outbound queue and what every
\* waiter was told as they are.
NothingReleased ==
    /\ outstandingRequests' = outstandingRequests
    /\ outboundFlowControlQueue' = outboundFlowControlQueue
    /\ \A r \in Submitted :
          /\ requests'[r].notified = requests[r].notified
          /\ requests'[r].response = requests[r].response
          /\ requests'[r].transportError = requests[r].transportError

\* The tracker receives a response, or the expiry of request r's timer.
ReceivesResponse ==
    /\ trackerPc = "select"
    /\ responsesFromAgents # <<>>
    /\ responsesFromAgents' = Tail(responsesFromAgents)

ReceivesTimeout(r) ==
    /\ trackerPc = "select"
    /\ requests[r].timer = "fired"
    /\ requests'[r].timer # "fired"

\* C27: a response whose id is not in the outstanding table, and a timeout
\* whose id is not in it, each adds one increment (of
\* RESPONSES_DROPPED_BY_REQUEST_TRACKER, of UNKNOWN_REQUESTS_TIMED_OUT) and
\* nothing else: the table and the outbound queue stay as they are and no
\* waiter is notified, from the receive until the tracker is back at its
\* select.
Thm_C27 ==
    [][/\ (ReceivesResponse
              /\ Head(responsesFromAgents) \notin DOMAIN outstandingRequests)
          => /\ trackerPc' = "dropStat"
             /\ NothingReleased
             /\ statIncrementNotifications' = statIncrementNotifications
       /\ \A r \in Submitted :
             (ReceivesTimeout(r)
                 /\ requests[r].requestId \notin DOMAIN outstandingRequests)
             => /\ trackerPc' = "unkStat"
                /\ NothingReleased
                /\ statIncrementNotifications' = statIncrementNotifications
       /\ (trackerPc = "dropStat" /\ trackerPc' # "dropStat")
          => /\ trackerPc' = "select"
             /\ NothingReleased
             /\ statIncrementNotifications' =
                    Append(statIncrementNotifications,
                           "RESPONSES_DROPPED_BY_REQUEST_TRACKER")
       /\ (trackerPc = "unkStat" /\ trackerPc' # "unkStat")
          => /\ trackerPc' = "select"
             /\ NothingReleased
             /\ statIncrementNotifications' =
                    Append(statIncrementNotifications,
                           "UNKNOWN_REQUESTS_TIMED_OUT")]_vars

\* A response and a timeout raced for a request and the response was seen
\* first: the request was released with its response, and the timeout, which
\* found no entry, was counted as unknown and changed nothing else.
Wit_C27 ==
    /\ trackerPc = "select"
    /\ Issued("UNKNOWN_REQUESTS_TIMED_OUT") = 1
    /\ \E r \in Submitted :
          /\ NotifiedResponse(r)
          /\ requests[r].timer = "stopped"
          /\ ~InTable(r)

\* Transmitter g's WriteToUDP returns in this step, and not with success.
WriteFails(g) == txPc[g] = "write" /\ txPc'[g] \notin {"write", "statSent"}

\* C28, as the specification states it: a write that fails, in whatever way,
\* takes the transmitter to the increment of OUTBOUND_CONNECTION_CLOSE or
\* OUTBOUND_CONNECTION_DEATH; the increment made, it leaves its loop to
\* signal its death; a write that succeeds takes it to the increment of
\* OUTBOUND_MESSAGES_SENT and back to its select.
CE_C28 ==
    [][\A g \in Gens :
          /\ WriteFails(g) => txPc'[g] \in {"statClose", "statDeath"}
          /\ (txPc[g] \in {"statClose", "statDeath"} /\ txPc'[g] # txPc[g])
             => /\ txPc'[g] = "sendDied"
                /\ statIncrementNotifications' =
                       Append(statIncrementNotifications,
                              IF txPc[g] = "statClose"
                              THEN "OUTBOUND_CONNECTION_CLOSE"
                              ELSE "OUTBOUND_CONNECTION_DEATH")
          /\ (txPc[g] = "statSent" /\ txPc'[g] # "statSent")
             => /\ txPc'[g] = "select"
                /\ statIncrementNotifications' =
                       Append(statIncrementNotifications,
                              "OUTBOUND_MESSAGES_SENT")]_vars

\* C29, as the specification states it: in the second variant, a listener
\* that leaves its loop on a read error or a closed socket runs its deferred
\* function to the end and returns, and the transmitter of its generation
\* returns as well (unless Shutdown is called meanwhile).
CE_C29 ==
    \A g \in Gens :
        (variant = 2 /\ rxPc[g] \in {"statClose", "statDeath"})
            ~> ((rxPc[g] = "done" /\ txPc[g] = "done") \/ ShutdownCalled)

\* No rollover has happened yet: the ring holds the live bin only, and
\* nextRollover is what the tracker computed at its start.
BeforeFirstRollover == DOMAIN fifteenMinuteBins = {1}

\* C30, as the specification states it: in the second variant a tick of the
\* stats ticker rolls the ring over exactly when the live bin has counted,
\* before the first rollover, a rollover period less the seconds the tracker
\* started after a boundary, and afterwards a full rollover period.
CE_C30 ==
    [][(variant = 2 /\ nTicks' = nTicks + 1) =>
          LET counted == fifteenMinuteBins[1].NumSeconds + 1
              due == IF BeforeFirstRollover
                     THEN RolloverSeconds - nextRollover
                     ELSE RolloverSeconds
          IN  (fifteenMinuteBins'[1].NumSeconds = 0) <=> (counted = due)]_vars

\* C31, as the specification states it: no handler's Get or Set is called
\* with a nil transaction; a request whose StartTxn returned nil has no
\* handler called for any of its varbinds.
CE_C31 ==
    \A i \in 1..Len(processed) :
        /\ \A k \in 1..Len(processed[i].handlerCalls) :
               processed[i].handlerCalls[k][3] # "nil"
        /\ (processed[i].txn = "nil" => processed[i].handlerCalls = <<>>)

\* Controller g receives a message from the outbound queue in this step.
TxReceives(g) ==
    /\ txPc[g] = "select"
    /\ outboundFlowControlQueue # <<>>
    /\ outboundFlowControlQueue' = Tail(outboundFlowControlQueue)

\* C32: a message the outbound controller takes from the queue is either
\* encoded and handed to the socket, or, when it fails to encode, dropped:
\* the controller is back at its select, has not left its loop, has signalled
\* no death and the socket is as it was, the messages queued behind the
\* dropped one are still queued in their order; and the controller goes on:
\* every queued message is taken from the queue in its turn.
Thm_C32 ==
    /\ [][\A g \in Gens :
             TxReceives(g) =>
                 \/ /\ txPc'[g] = "write"
                    /\ txMsg' = Head(outboundFlowControlQueue)
                 \/ /\ txPc'[g] = "select"
                    /\ txMsg' = txMsg
                    /\ txExit' = txExit
                    /\ outboundDied' = outboundDied
                    /\ conn' = conn
                    /\ connOpen' = connOpen]_vars
    /\ \A r \in 1..MaxReq : InOutboundQueue(r) ~> ~InOutboundQueue(r)

\* The first request's message was queued once and dropped: it is queued no
\* more, no message was sent, and its timer still runs.  The controller has
\* gone on to the second request's message and written it to the open socket.
Wit_C32 ==
    /\ Len(requests) = 2
    /\ requests[1].pushes = 1
    /\ requests[1].timer = "running"
    /\ ~InOutboundQueue(1)
    /\ Issued("OUTBOUND_MESSAGES_SENT") = 0
    /\ txPc[1] = "statSent"
    /\ txMsg = 2
    /\ txExit[1][1] = "none"
    /\ connOpen[1]

====
